---- MODULE Spec2Model ----
(***************************************************************************)
(* Memory-driven invoice intelligence: the memory store (MemoryDatabase),  *)
(* the MemoryManager (create / recall+decay / reinforce / weaken /         *)
(* feedback) and the InvoiceProcessor pipeline (recall, apply, decide,     *)
(* learn).                                                                 *)
(*                                                                         *)
(* Numbers.  Confidences are JavaScript doubles in the source.  Here a     *)
(* confidence is an integer count of 1/SCALE units (0.95 is 9500); a       *)
(* product of two confidences is truncated to that resolution (MulFix).    *)
(* Time is counted in whole days since the epoch, which is all that        *)
(* applyDecayToUnusedMemories reads from a timestamp; 0 stands for the     *)
(* empty lastUsedAt string of a memory that was never used.                *)
(* Memory ids (uuid v4 in the source) are 1, 2, 3, ... in creation order.  *)
(***************************************************************************)
EXTENDS Integers, Sequences, FiniteSets, TLC

\* ------------------------------------------------------------------ bounds
MaxMem == 4          \* memories the store may hold
MaxOps == 3          \* calls in one behaviour
MaxDay == 15         \* last day the clock reaches
MaxCorrections == 4  \* corrections handed to makeDecision on its own

\* --------------------------------------------------------------- constants
SCALE == 10000
CONFIDENCE_DECAY_RATE == 9500
MAX_CONFIDENCE_INCREASE == 1000
MIN_CONFIDENCE == 1000
MAX_CONFIDENCE == 9500
MAX_CONFIDENCE_DECREASE == 3000
DECAY_GRACE_DAYS == 7
DEFAULT_MIN_CONFIDENCE == 3000
DEFAULT_LIMIT == 50
DEFAULT_VENDOR_CONFIDENCE == 5000
DEFAULT_CORRECTION_CONFIDENCE == 4000
DEFAULT_RESOLUTION_CONFIDENCE == 6000
DEFAULT_REINFORCE_STRENGTH == 1000
DEFAULT_WEAKEN_STRENGTH == 2000

Undef == "undefined"
Never == 0

Min(a, b) == IF a <= b THEN a ELSE b
Max(a, b) == IF a >= b THEN a ELSE b

\* a * b for two numbers held in 1/SCALE units
MulFix(a, b) == (a * b) \div SCALE

\* Math.pow(base, k) for a base held in 1/SCALE units and an integer k >= 0
RECURSIVE PowFix(_, _)
PowFix(base, k) == IF k <= 0 THEN SCALE ELSE MulFix(PowFix(base, k - 1), base)

\* A JSON value of extractedData, of a memory's value or of a correction.
UndefV == [k |-> "undefined", s |-> "", n |-> 0, items |-> <<>>]
Str(x) == [k |-> "string", s |-> x, n |-> 0, items |-> <<>>]
Num(x) == [k |-> "number", s |-> "", n |-> x, items |-> <<>>]
Bool(b) == [k |-> "boolean", s |-> IF b THEN "true" ELSE "false", n |-> 0, items |-> <<>>]
Arr(xs) == [k |-> "array", s |-> "", n |-> 0, items |-> xs]

\* null, as JSON.parse and an empty column give it
NullV == [k |-> "null", s |-> "", n |-> 0, items |-> <<>>]

\* The JSON text that JSON.stringify writes for a value: a string, which is
\* not the value it encodes.  JSON.stringify(undefined) is undefined, which
\* is bound to the column as NULL.
JsonStringify(v) ==
  IF v.k = "undefined" THEN NullV
  ELSE [k |-> "json", s |-> "", n |-> 0, items |-> <<v>>]

\* JSON.parse of a column: the encoded value; JSON.parse(null) is null
JsonParse(column) == IF column.k = "json" THEN column.items[1] ELSE NullV

TruthyV(v) ==
  CASE v.k \in {"undefined", "null"} -> FALSE
    [] v.k = "string" -> v.s # ""
    [] v.k = "number" -> v.n # 0
    [] v.k = "boolean" -> v.s = "true"
    [] OTHER -> TRUE

NoAction == [type |-> "", sourceField |-> "", targetField |-> "",
  value |-> UndefV, strategy |-> ""]

\* ------------------------------------------------------------------- state
VARIABLES
  store,      \* the memories table joined with its three detail tables: store[id]
  now,        \* today, in days
  ops,        \* operations performed so far
  lastOp,     \* history: the last operation, its arguments, what it returned
              \* and the store it started from
  lastUse,    \* history: lastUse[id] is the day memory id was created or last
              \* passed to reinforceMemory
  decideCall,   \* makeDecision called on its own: its arguments and what it returned
  inFlight      \* reinforceMemory calls that run concurrently: inFlight[p] is the
                \* position of caller p, its arguments and the memory it read

vars == <<store, now, ops, lastOp, lastUse, decideCall, inFlight>>

\* ------------------------------------------------- MemoryDatabase (the store)
\* INSERT OR REPLACE of the base row and of the detail row, from the object.
\* The row written for a memory object: the base columns as they are, the
\* value column of its detail table as JSON text.
MemoryToRow(memory) ==
  CASE memory.type = "vendor" ->
         [memory EXCEPT !.action.value = JsonStringify(memory.action.value)]
    [] memory.type = "correction" ->
         [memory EXCEPT !.correctedValue = JsonStringify(memory.correctedValue)]
    [] OTHER -> memory

SaveMemory(st, memory) ==
  IF memory.id \in DOMAIN st
    THEN [st EXCEPT ![memory.id] = MemoryToRow(memory)]
    ELSE Append(st, MemoryToRow(memory))

UpdateMemoryUsage(st, memoryId, today) ==
  IF memoryId \in DOMAIN st
    THEN [st EXCEPT ![memoryId].usageCount = @ + 1,
                    ![memoryId].lastUsedAt = today,
                    ![memoryId].lastUpdatedAt = today]
    ELSE st

UpdateMemoryConfidence(st, memoryId, newConfidence, today) ==
  IF memoryId \in DOMAIN st
    THEN [st EXCEPT ![memoryId].confidence = newConfidence,
                    ![memoryId].lastUpdatedAt = today]
    ELSE st

\* A query: "" and 0 stand for an absent field (the source tests truthiness).
\* The pattern filter (LIKE on the detail tables) is left out: no call made
\* here passes one.
EmptyQuery == [vendor |-> "", type |-> "", fieldName |-> "",
  minConfidence |-> 0, limit |-> 0]

\* MatchesQuery without the is_active = 1 condition
MatchesQueryAnyActivity(m, q) ==
  /\ (q.vendor # "" => m.vendor = q.vendor)
  /\ (q.type # "" => m.type = q.type)
  /\ (q.fieldName # "" => (m.type = "correction" /\ m.fieldName = q.fieldName))
  /\ (q.minConfidence # 0 => m.confidence >= q.minConfidence)

MatchesQuery(m, q) ==
  /\ m.isActive
  /\ (q.vendor # "" => m.vendor = q.vendor)
  /\ (q.type # "" => m.type = q.type)
  /\ (q.fieldName # "" => (m.type = "correction" /\ m.fieldName = q.fieldName))
  /\ (q.minConfidence # 0 => m.confidence >= q.minConfidence)

\* ORDER BY confidence DESC, usage_count DESC; rows that tie come in id order.
Before(a, b) ==
  \/ a.confidence > b.confidence
  \/ (a.confidence = b.confidence /\ a.usageCount > b.usageCount)
  \/ (a.confidence = b.confidence /\ a.usageCount = b.usageCount /\ a.id < b.id)

RECURSIVE OrderRows(_, _)
OrderRows(st, S) ==
  IF S = {} THEN <<>>
  ELSE LET first == CHOOSE i \in S : \A j \in S \ {i} : Before(st[i], st[j])
       IN <<st[first]>> \o OrderRows(st, S \ {first})

Take(s, n) == IF Len(s) <= n THEN s ELSE SubSeq(s, 1, n)

\* LIMIT ?, when the query gives a limit
LimitRows(rows, limit) == IF limit # 0 THEN Take(rows, limit) ELSE rows

\* rowToMemory handing the value columns on as stored
RowToMemoryUnparsed(row) == row

\* rowToMemory: the memory object built from a joined row
RowToMemory(row) ==
  CASE row.type = "vendor" ->
         [row EXCEPT !.action.value =
            IF TruthyV(row.action.value) THEN JsonParse(row.action.value) ELSE UndefV]
    [] row.type = "correction" ->
         [row EXCEPT !.correctedValue = JsonParse(row.correctedValue)]
    [] OTHER -> row

RowsToMemories(rows) == [k \in DOMAIN rows |-> RowToMemory(rows[k])]

QueryMemories(st, q) ==
  RowsToMemories(
    LimitRows(OrderRows(st, {i \in DOMAIN st : MatchesQuery(st[i], q)}), q.limit))

\* memories.find(m => m.id === memoryId) over the active memories: the first
\* (and, ids being unique, only) memory with that id, or none
\* The memory looked up among the inactive memories as well
FindMemoryAnyActivity(st, memoryId) ==
  Take(SelectSeq(RowsToMemories(st), LAMBDA m : m.id = memoryId), 1)

FindMemory(st, memoryId) ==
  Take(SelectSeq(QueryMemories(st, EmptyQuery), LAMBDA m : m.id = memoryId), 1)

\* ------------------------------------------------------------ MemoryManager
\* An id that repeats the id of the memory created last
NextIdReused(st) == IF st = <<>> THEN 1 ELSE Len(st)

NextId(st) == Len(st) + 1

\* The fields every memory row carries, with the detail columns of the other
\* two kinds left empty.
BaseMemory(st, type, vendor, initialConfidence, today) ==
  [id |-> NextId(st), type |-> type, vendor |-> vendor,
   confidence |-> Min(initialConfidence, MAX_CONFIDENCE),
   usageCount |-> 0, createdAt |-> today, lastUsedAt |-> Never,
   lastUpdatedAt |-> today, isActive |-> TRUE,
   triggerSignal |-> "", action |-> NoAction, pattern |-> "",
   fieldName |-> "", originalPattern |-> "", correctedValue |-> UndefV,
   correctionReason |-> "", approvalCount |-> 0, rejectionCount |-> 0,
   scenario |-> "", outcome |-> "", humanFeedback |-> Undef, systemAction |-> ""]

NewVendorMemory(st, vendor, triggerSignal, action, pattern, initialConfidence, today) ==
  [BaseMemory(st, "vendor", vendor, initialConfidence, today) EXCEPT
     !.triggerSignal = triggerSignal, !.action = action, !.pattern = pattern]

NewCorrectionMemory(st, vendor, fieldName, originalPattern, correctedValue, correctionReason, initialConfidence, today) ==
  [BaseMemory(st, "correction", vendor, initialConfidence, today) EXCEPT
     !.fieldName = fieldName, !.originalPattern = originalPattern,
     !.correctedValue = correctedValue, !.correctionReason = correctionReason]

NewResolutionMemory(st, vendor, scenario, outcome, systemAction, humanFeedback, initialConfidence, today) ==
  [BaseMemory(st, "resolution", vendor, initialConfidence, today) EXCEPT
     !.scenario = scenario, !.outcome = outcome,
     !.humanFeedback = humanFeedback, !.systemAction = systemAction]

CreateVendorMemory(st, vendor, triggerSignal, action, pattern, initialConfidence, today) ==
  SaveMemory(st, NewVendorMemory(st, vendor, triggerSignal, action, pattern,
                                 initialConfidence, today))

CreateCorrectionMemory(st, vendor, fieldName, originalPattern, correctedValue, correctionReason, initialConfidence, today) ==
  SaveMemory(st, NewCorrectionMemory(st, vendor, fieldName, originalPattern,
                                     correctedValue, correctionReason,
                                     initialConfidence, today))

CreateResolutionMemory(st, vendor, scenario, outcome, systemAction, humanFeedback, initialConfidence, today) ==
  SaveMemory(st, NewResolutionMemory(st, vendor, scenario, outcome, systemAction,
                                     humanFeedback, initialConfidence, today))

ReinforcedConfidence(confidence, strength) ==
  Min(confidence + Min(strength, MAX_CONFIDENCE_INCREASE), MAX_CONFIDENCE)

\* reinforceMemory: the memory object is the row as read by the query; for a
\* correction memory that object, with approvalCount bumped, is saved last.
ReinforceMemory(st, memoryId, strength, today) ==
  LET found == FindMemory(st, memoryId)
  IN IF found = <<>> THEN st
     ELSE LET memory == found[1]
              newConfidence == ReinforcedConfidence(memory.confidence, strength)
              st1 == UpdateMemoryConfidence(st, memoryId, newConfidence, today)
              st2 == UpdateMemoryUsage(st1, memoryId, today)
          IN IF memory.type = "correction"
               THEN SaveMemory(st2, [memory EXCEPT !.approvalCount = @ + 1])
               ELSE st2

WeakenedConfidence(confidence, strength) ==
  Max(confidence - Min(strength, MAX_CONFIDENCE_DECREASE), MIN_CONFIDENCE)

\* weakenMemory: same object discipline; at the floor the object is saved
\* with isActive = false.
WeakenMemory(st, memoryId, strength, today) ==
  LET found == FindMemory(st, memoryId)
  IN IF found = <<>> THEN st
     ELSE LET memory == found[1]
              newConfidence == WeakenedConfidence(memory.confidence, strength)
              st1 == UpdateMemoryConfidence(st, memoryId, newConfidence, today)
              memory1 == IF memory.type = "correction"
                           THEN [memory EXCEPT !.rejectionCount = @ + 1]
                           ELSE memory
              st2 == IF memory.type = "correction" THEN SaveMemory(st1, memory1) ELSE st1
          IN IF newConfidence <= MIN_CONFIDENCE
               THEN SaveMemory(st2, [memory1 EXCEPT !.isActive = FALSE])
               ELSE st2

\* The confidence applyDecayToUnusedMemories computes for one memory object.
DaysSinceLastUse(memory, today) ==
  today - (IF memory.lastUsedAt # Never THEN memory.lastUsedAt ELSE memory.createdAt)

DecayedConfidence(memory, today) ==
  LET daysSinceLastUse == DaysSinceLastUse(memory, today)
  IN IF daysSinceLastUse > DECAY_GRACE_DAYS
       THEN Max(MulFix(memory.confidence,
                       PowFix(CONFIDENCE_DECAY_RATE, daysSinceLastUse - DECAY_GRACE_DAYS)),
                MIN_CONFIDENCE)
       ELSE memory.confidence

\* applyDecayToUnusedMemories: writes the decayed confidence to the store; the
\* memory objects of the list are not touched.
RECURSIVE ApplyDecayToUnusedMemories(_, _, _)
ApplyDecayToUnusedMemories(st, memories, today) ==
  IF memories = <<>> THEN st
  ELSE LET memory == Head(memories)
           newConfidence == DecayedConfidence(memory, today)
           st1 == IF newConfidence # memory.confidence
                    THEN UpdateMemoryConfidence(st, memory.id, newConfidence, today)
                    ELSE st
       IN ApplyDecayToUnusedMemories(st1, Tail(memories), today)

\* A caller's partial query: AbsentS / AbsentN mark a key that is not given.
AbsentS == "<absent>"
AbsentN == -1
NoOverride == [vendor |-> AbsentS, type |-> AbsentS, fieldName |-> AbsentS,
  minConfidence |-> AbsentN, limit |-> AbsentN]

FullQuery(invoice, query) ==
  [vendor |-> IF query.vendor = AbsentS THEN invoice.vendor ELSE query.vendor,
   type |-> IF query.type = AbsentS THEN "" ELSE query.type,
   fieldName |-> IF query.fieldName = AbsentS THEN "" ELSE query.fieldName,
   minConfidence |-> IF query.minConfidence = AbsentN THEN DEFAULT_MIN_CONFIDENCE
                     ELSE query.minConfidence,
   limit |-> IF query.limit = AbsentN THEN DEFAULT_LIMIT ELSE query.limit]

\* fullQuery.minConfidence || 0.3
ReturnThreshold(fullQuery) ==
  IF fullQuery.minConfidence # 0 THEN fullQuery.minConfidence ELSE DEFAULT_MIN_CONFIDENCE

\* memories.filter(m => m.confidence >= threshold), on the memory objects
FilterByConfidence(memories, threshold) ==
  SelectSeq(memories, LAMBDA m : m.confidence >= threshold)

\* recallMemories: the new store and the list handed back to the caller.
RecalledFrom(st, memories, threshold, today) ==
  [store |-> ApplyDecayToUnusedMemories(st, memories, today),
   memories |-> FilterByConfidence(memories, threshold)]

RecallWithQuery(st, fullQuery, today) ==
  RecalledFrom(st, QueryMemories(st, fullQuery), ReturnThreshold(fullQuery), today)

RecallMemories(st, invoice, query, today) ==
  RecallWithQuery(st, FullQuery(invoice, query), today)

\* ------------------------------------------------------------ values, invoices
Fields == {"serviceDate", "date", "currency", "poNumber", "vatIncluded",
  "vatAmount", "amount", "lineItems", "totalPrice"}

\* rawText is kept as the set of cues it contains (rawText.includes(cue)) and
\* labelDate as the YYYY-MM-DD date that follows "Leistungsdatum:", if any.
RawTextIncludes(invoice, signal) == signal \in invoice.rawText

\* The date of the invoice taken for the date after the label
LeistungsdatumMatchInvoiceDate(invoice) ==
  IF "Leistungsdatum" \in invoice.rawText THEN invoice.extractedData["date"].s ELSE Undef

\* rawText.match(/Leistungsdatum:\s*(\d{4}-\d{2}-\d{2})/)
LeistungsdatumMatch(invoice) ==
  IF "Leistungsdatum" \in invoice.rawText THEN invoice.labelDate ELSE Undef

\* /MwSt\.\s*inkl\.|Prices\s*incl\.\s*VAT/i .test(rawText)
VatIncludedPatternTest(invoice) ==
  invoice.rawText \cap {"MwSt. inkl.", "Prices incl. VAT"} # {}

\* item.description.match(/PO[:\s]*(\w+)/i), match[1]
PoPatternMatch(description) ==
  CASE description = "Service PO 4711" -> "4711"
    [] description = "Hardware Components" -> "nents"
    [] OTHER -> Undef

\* ------------------------------------------------------------ InvoiceProcessor
AUTO_ACCEPT == 8500
AUTO_CORRECT == 6500
ESCALATE == 4000
MEMORY_APPLICATION == 5000
RELIABLE_CORRECTION == 7000
LOW_CORRECTION == 6000
MANY_CORRECTIONS == 3
CONFLICT_PENALTY == 7000
NO_CORRECTION_CONFIDENCE == 9000
APPLY_REINFORCE_STRENGTH == 200

\* confidence.toFixed(3): the number of thousandths, rounded
ToFixed3(confidence) == (confidence * 1000 + SCALE \div 2) \div SCALE

SeqToSet(s) == {s[i] : i \in DOMAIN s}

RECURSIVE Concat(_)
Concat(ss) == IF ss = <<>> THEN <<>> ELSE Head(ss) \o Concat(Tail(ss))

\* Every field of the heuristics reported, whatever the invoice holds
detectFieldIssuesAllFields(invoice) ==
  <<"serviceDate", "currency", "poNumber", "vatIncluded", "vatAmount", "lineItems">>

detectFieldIssues(invoice) ==
  LET data == invoice.extractedData
  IN Concat(<<
       IF ~TruthyV(data["serviceDate"]) /\ TruthyV(data["date"]) THEN <<"serviceDate">> ELSE <<>>,
       IF ~TruthyV(data["currency"]) THEN <<"currency">> ELSE <<>>,
       IF ~TruthyV(data["poNumber"]) THEN <<"poNumber">> ELSE <<>>,
       IF data["vatIncluded"].k = "undefined" THEN <<"vatIncluded">> ELSE <<>>,
       IF ~TruthyV(data["vatAmount"]) /\ TruthyV(data["amount"]) THEN <<"vatAmount">> ELSE <<>>,
       IF TruthyV(data["lineItems"])
          /\ \E i \in DOMAIN data["lineItems"].items : data["lineItems"].items[i].sku = Undef
         THEN <<"lineItems">> ELSE <<>> >>)

\* The scenario label is kept as the sequence of the tags it joins with "_".
categorizeInvoiceScenario(invoice) ==
  LET data == invoice.extractedData
      scenarios == Concat(<<
        IF ~TruthyV(data["poNumber"]) THEN <<"missing_po">> ELSE <<>>,
        IF ~TruthyV(data["serviceDate"]) THEN <<"missing_service_date">> ELSE <<>>,
        IF TruthyV(data["vatIncluded"]) THEN <<"vat_included">> ELSE <<>>,
        IF ~TruthyV(data["currency"]) THEN <<"missing_currency">> ELSE <<>> >>)
  IN IF scenarios = <<>> THEN <<"standard">> ELSE scenarios

\* label.includes(scenario), on tag sequences
ScenarioIncludes(label, scenario) ==
  \E i \in 0..Len(label) :
    /\ i + Len(scenario) <= Len(label)
    /\ \A j \in 1..Len(scenario) : label[i + j] = scenario[j]

\* InvoiceProcessor.recallMemories: three kinds of recall through the manager,
\* each of which may write decayed confidences.
\* One recall appended to what was recalled so far: acc is the store and the
\* memories gathered so far, r the next recall made on acc.store.
Gathered(acc, r) == [store |-> r.store, memories |-> acc.memories \o r.memories]

RECURSIVE RecallCorrections(_, _, _, _)
RecallCorrections(acc, invoice, fieldIssues, today) ==
  IF fieldIssues = <<>> THEN acc
  ELSE RecallCorrections(
         Gathered(acc, RecallMemories(acc.store, invoice,
           [NoOverride EXCEPT !.type = "correction", !.fieldName = Head(fieldIssues)],
           today)),
         invoice, Tail(fieldIssues), today)

\* resolutionMemories.filter(m => m.scenario.includes(scenario))
RelevantResolutions(r, scenario) ==
  [store |-> r.store,
   memories |-> SelectSeq(r.memories,
      LAMBDA m : m.type = "resolution" /\ ScenarioIncludes(m.scenario, scenario))]

RecallResolutions(acc, invoice, today) ==
  Gathered(acc,
    RelevantResolutions(
      RecallMemories(acc.store, invoice, [NoOverride EXCEPT !.type = "resolution"], today),
      categorizeInvoiceScenario(invoice)))

ProcessorRecallMemories(st, invoice, today) ==
  RecallResolutions(
    RecallCorrections(
      RecallMemories(st, invoice, [NoOverride EXCEPT !.type = "vendor"], today),
      invoice, detectFieldIssues(invoice), today),
    invoice, today)

NoCorrection == <<>>

\* A correction that records the proposed value as the original one
MakeCorrectionOverwritten(invoice, field, proposedValue, memory, reasoning) ==
  <<[field |-> field, originalValue |-> proposedValue,
     proposedValue |-> proposedValue, confidence |-> memory.confidence,
     memorySource |-> memory.id, reasoning |-> reasoning]>>

MakeCorrection(invoice, field, proposedValue, memory, reasoning) ==
  <<[field |-> field, originalValue |-> invoice.extractedData[field],
     proposedValue |-> proposedValue, confidence |-> memory.confidence,
     memorySource |-> memory.id, reasoning |-> reasoning]>>

performInference(invoice, action) ==
  CASE action.strategy = "po_from_items" ->
         LET data == invoice.extractedData
             items == data["lineItems"].items
             hits == {i \in DOMAIN items : PoPatternMatch(items[i].description) # Undef}
         IN IF ~TruthyV(data["poNumber"]) /\ TruthyV(data["lineItems"]) /\ hits # {}
              THEN Str(PoPatternMatch(items[CHOOSE i \in hits : \A j \in hits : i <= j].description))
              ELSE UndefV
    [] action.strategy = "currency_from_text" ->
         CASE invoice.rawText \cap {"EUR", "euro"} # {} -> Str("EUR")
           [] invoice.rawText \cap {"USD", "dollar"} # {} -> Str("USD")
           [] invoice.rawText \cap {"GBP", "pound"} # {} -> Str("GBP")
           [] OTHER -> UndefV
    [] OTHER -> UndefV

\* Math.round(a / b) for a, b > 0
RoundDiv(a, b) == (2 * a + b) \div (2 * b)

RECURSIVE SumTotalPrice(_)
SumTotalPrice(items) ==
  IF items = <<>> THEN 0 ELSE Head(items).totalPrice + SumTotalPrice(Tail(items))

\* Amounts are held in 1/100 units; vatRate = vatAmount || 0.19.
performComputation(invoice, action) ==
  LET data == invoice.extractedData
  IN CASE action.strategy = "vat_included_adjustment" ->
            IF TruthyV(data["vatIncluded"]) /\ TruthyV(data["amount"])
              THEN LET vatRate == IF TruthyV(data["vatAmount"]) THEN data["vatAmount"].n ELSE 19
                   IN Num(RoundDiv(data["amount"].n * 100, 100 + vatRate))
              ELSE UndefV
       [] action.strategy = "total_from_items" ->
            IF TruthyV(data["lineItems"])
              THEN Num(SumTotalPrice(data["lineItems"].items))
              ELSE UndefV
       [] OTHER -> UndefV

applyVendorMemory(invoice, memory) ==
  LET action == memory.action
      triggerFound == RawTextIncludes(invoice, memory.triggerSignal)
                      \/ memory.triggerSignal = invoice.vendor
      noValue == [none |-> TRUE, value |-> UndefV]
      proposed ==
        CASE action.type = "field_mapping" ->
               IF action.strategy = "extract_from_text" /\ memory.triggerSignal = "Leistungsdatum"
                 THEN [none |-> FALSE,
                       value |-> IF LeistungsdatumMatch(invoice) # Undef
                                   THEN Str(LeistungsdatumMatch(invoice)) ELSE UndefV]
               ELSE IF action.sourceField # "" /\ TruthyV(invoice.extractedData[action.sourceField])
                 THEN [none |-> FALSE, value |-> invoice.extractedData[action.sourceField]]
               ELSE IF action.value # UndefV
                 THEN [none |-> FALSE, value |-> action.value]
               ELSE noValue
          [] action.type = "inference" ->
               [none |-> FALSE, value |-> performInference(invoice, action)]
          [] action.type = "computation" ->
               IF action.strategy = "vat_included_detection"
                 THEN [none |-> FALSE,
                       value |-> IF VatIncludedPatternTest(invoice) THEN Bool(TRUE) ELSE UndefV]
                 ELSE [none |-> FALSE, value |-> performComputation(invoice, action)]
          [] OTHER -> noValue
  IN IF ~triggerFound \/ proposed.none THEN NoCorrection
     ELSE IF proposed.value = UndefV
             \/ proposed.value = invoice.extractedData[action.targetField]
       THEN NoCorrection
     ELSE MakeCorrection(invoice, action.targetField, proposed.value, memory,
            <<"Vendor memory", memory.triggerSignal, action.targetField, action.type>>)

\* new RegExp(pattern, 'i') throws for these patterns
InvalidRegex(pattern) == pattern \in {"(", "["}

\* String(value || '')
IsEmptyString(value) == ~TruthyV(value) \/ (value.k = "array" /\ value.items = <<>>)

\* regex.test(valueStr) for the patterns the model creates memories with
RegexTest(pattern, value) ==
  CASE pattern = "^$" -> IsEmptyString(value)
    [] pattern = "" -> TRUE
    [] OTHER -> value.k = "string" /\ value.s = pattern

\* valueStr.includes(pattern), valueStr = String(value || ''): a string is
\* itself, an array of line items is "[object Object]" (joined by commas),
\* a falsy value is ''.
StringIncludes(value, pattern) ==
  \/ pattern = ""
  \/ value.k = "string" /\ value.s = pattern
  \/ value.k = "array" /\ value.items # <<>> /\ pattern = "["

\* matchesPattern with a pattern that cannot be compiled treated as no match
matchesPatternNoFallback(value, pattern) ==
  IF pattern = "human_correction" THEN TRUE
  ELSE IF InvalidRegex(pattern) THEN FALSE
  ELSE RegexTest(pattern, value)

matchesPattern(value, pattern) ==
  IF pattern = "human_correction" THEN TRUE
  ELSE IF InvalidRegex(pattern) THEN StringIncludes(value, pattern)
  ELSE RegexTest(pattern, value)

applyCorrectionMemory(invoice, memory) ==
  LET currentValue == invoice.extractedData[memory.fieldName]
  IN IF memory.originalPattern = "human_correction"
        \/ matchesPattern(currentValue, memory.originalPattern)
       THEN MakeCorrection(invoice, memory.fieldName, memory.correctedValue, memory,
              <<"Correction memory", memory.correctionReason, memory.approvalCount>>)
       ELSE NoCorrection

\* applyMemory with a case for resolution memories: the recorded outcome
\* proposed as the currency
applyMemoryWithResolutions(invoice, memory) ==
  CASE memory.type = "vendor" -> applyVendorMemory(invoice, memory)
    [] memory.type = "correction" -> applyCorrectionMemory(invoice, memory)
    [] OTHER -> <<[field |-> "currency", originalValue |-> invoice.extractedData["currency"],
                   proposedValue |-> Str(memory.outcome), confidence |-> memory.confidence,
                   memorySource |-> memory.id, reasoning |-> "resolution"]>>

applyMemory(invoice, memory) ==
  CASE memory.type = "vendor" -> applyVendorMemory(invoice, memory)
    [] memory.type = "correction" -> applyCorrectionMemory(invoice, memory)
    [] OTHER -> NoCorrection

\* detectMemoryConflicts: one entry per field whose corrections (two or more)
\* carry more than one distinct JSON value; fields in first-appearance order.
RECURSIVE FieldsInOrder(_, _)
FieldsInOrder(corrections, seen) ==
  IF corrections = <<>> THEN <<>>
  ELSE IF Head(corrections).field \in seen
    THEN FieldsInOrder(Tail(corrections), seen)
    ELSE <<Head(corrections).field>>
         \o FieldsInOrder(Tail(corrections), seen \cup {Head(corrections).field})

\* A conflict seen only among three or more corrections of a field
FieldConflictsOverTwo(corrections, field) ==
  LET fieldCorrs == SelectSeq(corrections, LAMBDA c : c.field = field)
      values == {fieldCorrs[i].proposedValue : i \in DOMAIN fieldCorrs}
  IN Len(fieldCorrs) > 2 /\ Cardinality(values) > 1

FieldConflicts(corrections, field) ==
  LET fieldCorrs == SelectSeq(corrections, LAMBDA c : c.field = field)
      values == {fieldCorrs[i].proposedValue : i \in DOMAIN fieldCorrs}
  IN Len(fieldCorrs) > 1 /\ Cardinality(values) > 1

detectMemoryConflicts(corrections) ==
  SelectSeq(FieldsInOrder(corrections, {}), LAMBDA f : FieldConflicts(corrections, f))

\* The penalty taken once per conflicting field instead of once
RECURSIVE PenalizedPerConflict(_, _)
PenalizedPerConflict(totalConfidence, conflicts) ==
  IF conflicts = <<>> THEN totalConfidence
  ELSE PenalizedPerConflict(MulFix(totalConfidence, CONFLICT_PENALTY), Tail(conflicts))

\* totalConfidence after the conflict check
PenalizedConfidence(totalConfidence, conflicts) ==
  IF Len(conflicts) > 0 THEN MulFix(totalConfidence, CONFLICT_PENALTY) ELSE totalConfidence

\* The overall confidence kept as the weakest memory instead of the product
AdjustConfidenceWeakest(totalConfidence, memory) == Min(totalConfidence, memory.confidence)

\* totalConfidence *= memory.confidence
AdjustConfidence(totalConfidence, memory) == MulFix(totalConfidence, memory.confidence)

\* The loop of applyMemories over the recalled memory objects.
\* One turn of the loop, given the correction the memory produced (if any)
ApplyOne(acc, memory, correction, today) ==
  IF correction = NoCorrection THEN acc
  ELSE [store |-> ReinforceMemory(acc.store, memory.id, APPLY_REINFORCE_STRENGTH, today),
        corrections |-> acc.corrections \o correction,
        updates |-> Append(acc.updates,
           [type |-> "reinforce", memoryId |-> memory.id,
            details |-> correction[1].field]),
        totalConfidence |-> AdjustConfidence(acc.totalConfidence, memory),
        appliedCount |-> acc.appliedCount + 1]

\* The loop body without the application threshold
CorrectionOfAnyConfidence(invoice, memory) ==
  applyMemory(invoice, memory)

\* if (memory.confidence < memoryApplication) continue
CorrectionOf(invoice, memory) ==
  IF memory.confidence < MEMORY_APPLICATION THEN NoCorrection
  ELSE applyMemory(invoice, memory)

RECURSIVE ApplyLoop(_, _, _, _)
ApplyLoop(acc, invoice, memories, today) ==
  IF memories = <<>> THEN acc
  ELSE ApplyLoop(
         ApplyOne(acc, Head(memories), CorrectionOf(invoice, Head(memories)), today),
         invoice, Tail(memories), today)

\* applyMemories without the default for the case that nothing was applied
AppliedResultNoDefault(acc, conflicts) ==
  [store |-> acc.store, corrections |-> acc.corrections, updates |-> acc.updates,
   conflicts |-> conflicts,
   confidence |-> PenalizedConfidence(acc.totalConfidence, conflicts)]

\* What applyMemories returns once the loop is done and the conflicts are found
AppliedResult(acc, conflicts) ==
  [store |-> acc.store, corrections |-> acc.corrections, updates |-> acc.updates,
   conflicts |-> conflicts,
   confidence |-> IF acc.appliedCount > 0
                    THEN PenalizedConfidence(acc.totalConfidence, conflicts)
                    ELSE NO_CORRECTION_CONFIDENCE]

AppliedAfterLoop(acc) == AppliedResult(acc, detectMemoryConflicts(acc.corrections))

applyMemories(st, invoice, memories, today) ==
  AppliedAfterLoop(
    ApplyLoop([store |-> st, corrections |-> <<>>, updates |-> <<>>,
               totalConfidence |-> SCALE, appliedCount |-> 0],
              invoice, memories, today))

\* The risk factors judged from the first correction alone
assessRiskFactorsFirst(corrections) ==
  Concat(<<
    IF corrections # <<>> /\ corrections[1].field \in {"amount", "vatAmount", "totalPrice"}
      THEN <<"financial_impact">> ELSE <<>>,
    IF corrections # <<>> /\ corrections[1].confidence < LOW_CORRECTION
      THEN <<"low_confidence_corrections">> ELSE <<>>,
    IF Len(corrections) > MANY_CORRECTIONS THEN <<"multiple_corrections">> ELSE <<>> >>)

assessRiskFactors(corrections) ==
  Concat(<<
    IF \E i \in DOMAIN corrections :
         corrections[i].field \in {"amount", "vatAmount", "totalPrice"}
      THEN <<"financial_impact">> ELSE <<>>,
    IF \E i \in DOMAIN corrections : corrections[i].confidence < LOW_CORRECTION
      THEN <<"low_confidence_corrections">> ELSE <<>>,
    IF Len(corrections) > MANY_CORRECTIONS THEN <<"multiple_corrections">> ELSE <<>> >>)

Decision(requiresReview, rule, confidence, riskFactors) ==
  [requiresReview |-> requiresReview,
   decisionReasoning |-> [rule |-> rule, confidence |-> confidence,
                          riskFactors |-> riskFactors]]

\* makeDecision with rule 2 asking for some reliable correction instead of all
makeDecisionSomeReliable(confidence, corrections) ==
  IF confidence >= AUTO_ACCEPT /\ Len(corrections) = 0
    THEN Decision(FALSE, "AUTO-ACCEPT", ToFixed3(confidence), <<>>)
  ELSE IF confidence >= AUTO_CORRECT
          /\ \E i \in DOMAIN corrections : corrections[i].confidence >= RELIABLE_CORRECTION
    THEN Decision(FALSE, "AUTO-CORRECT", ToFixed3(confidence), <<>>)
  ELSE IF confidence < ESCALATE
    THEN Decision(TRUE, "Low confidence", ToFixed3(confidence), <<>>)
  ELSE IF Len(assessRiskFactors(corrections)) > 0
    THEN Decision(TRUE, "Risk factors detected", -1, assessRiskFactors(corrections))
  ELSE Decision(TRUE, "Medium confidence", ToFixed3(confidence), <<>>)

\* makeDecision; the reasoning text is kept as the rule that produced it, the
\* confidence it prints (toFixed(3), -1 where none is printed) and the risk
\* factors it lists.
makeDecision(confidence, corrections) ==
  IF confidence >= AUTO_ACCEPT /\ Len(corrections) = 0
    THEN Decision(FALSE, "AUTO-ACCEPT", ToFixed3(confidence), <<>>)
  ELSE IF confidence >= AUTO_CORRECT
          /\ \A i \in DOMAIN corrections : corrections[i].confidence >= RELIABLE_CORRECTION
    THEN Decision(FALSE, "AUTO-CORRECT", ToFixed3(confidence), <<>>)
  ELSE IF confidence < ESCALATE
    THEN Decision(TRUE, "Low confidence", ToFixed3(confidence), <<>>)
  ELSE IF Len(assessRiskFactors(corrections)) > 0
    THEN Decision(TRUE, "Risk factors detected", -1, assessRiskFactors(corrections))
  ELSE Decision(TRUE, "Medium confidence", ToFixed3(confidence), <<>>)

identifyLearningOpportunities(invoice, corrections) ==
  (IF Len(corrections) = 0 THEN <<"successful_processing">> ELSE <<>>)
  \o [i \in DOMAIN corrections |-> corrections[i].field]

\* JSON.parse(JSON.stringify(invoice)): every extracted value written as JSON
\* text and parsed back; a property that is undefined is left out of the
\* text, so it is undefined in the clone.  The other properties are strings.
DeepClone(invoice) ==
  [invoice EXCEPT !.extractedData =
     [f \in Fields |->
        IF invoice.extractedData[f].k = "undefined" THEN UndefV
        ELSE JsonParse(JsonStringify(invoice.extractedData[f]))]]

\* normalizedInvoice.extractedData[field] = proposedValue, in order
RECURSIVE OverwriteFields(_, _)
OverwriteFields(normalizedInvoice, corrections) ==
  IF corrections = <<>> THEN normalizedInvoice
  ELSE OverwriteFields(
         [normalizedInvoice EXCEPT
            !.extractedData[Head(corrections).field] = Head(corrections).proposedValue],
         Tail(corrections))

\* The caller's invoice object once the corrections were written in place
InvoiceAfterCorrectionsInPlace(invoice, corrections) ==
  OverwriteFields(invoice, corrections)

\* The caller's invoice object after applyCorrections: every assignment goes
\* to the clone, and nothing else in the processor writes to the invoice.
InvoiceAfterCorrections(invoice, corrections) ==
  invoice

\* applyCorrections: a deep copy with each corrected field overwritten, in order.
applyCorrections(invoice, corrections) ==
  OverwriteFields(DeepClone(invoice), corrections)

\* An audit entry that leaves the confidence out
AuditEntryNoConfidence(step, today, details, confidence, memoryReferences) ==
  [step |-> step, timestamp |-> today, details |-> details,
   confidence |-> AbsentN, memoryReferences |-> memoryReferences]

AuditEntry(step, today, details, confidence, memoryReferences) ==
  [step |-> step, timestamp |-> today, details |-> details,
   confidence |-> confidence, memoryReferences |-> memoryReferences]

NoResult == <<>>

\* processInvoice: the new store and the ProcessingResult (in a one-element
\* sequence).  An absent audit confidence is AbsentN.
\* The four steps of processInvoice, each handing what it computed to the next.
\* Step 4 (learn) and the result, from the outcome of steps 1 to 3:
ProcessLearn(invoice, today, relevantMemories, applied, decision, learningOpportunities) ==
  [store |-> applied.store,
   recalled |-> relevantMemories,
   conflicts |-> applied.conflicts,
   result |-> <<[normalizedInvoice |-> applyCorrections(invoice, applied.corrections),
                 proposedCorrections |-> applied.corrections,
                 requiresHumanReview |-> decision.requiresReview,
                 reasoning |-> decision.decisionReasoning,
                 confidenceScore |-> applied.confidence,
                 memoryUpdates |-> applied.updates,
                 auditTrail |-> <<
                   AuditEntry("recall", today, <<Len(relevantMemories)>>, AbsentN,
                     [i \in DOMAIN relevantMemories |-> relevantMemories[i].id]),
                   AuditEntry("apply", today,
                     <<Len(applied.corrections), ToFixed3(applied.confidence)>>,
                     applied.confidence,
                     [i \in DOMAIN applied.corrections |->
                        applied.corrections[i].memorySource]),
                   AuditEntry("decide", today,
                     <<IF decision.requiresReview THEN "ESCALATE" ELSE "AUTO-PROCESS">>,
                     applied.confidence, <<>>),
                   AuditEntry("learn", today, <<Len(learningOpportunities)>>,
                     AbsentN, <<>>) >>]>>]

\* Step 3 (decide), from the outcome of steps 1 and 2
ProcessDecide(invoice, today, relevantMemories, applied) ==
  ProcessLearn(invoice, today, relevantMemories, applied,
    makeDecision(applied.confidence, applied.corrections),
    identifyLearningOpportunities(invoice, applied.corrections))

\* Step 2 (apply), from the outcome of step 1
ProcessApply(invoice, today, recalled) ==
  ProcessDecide(invoice, today, recalled.memories,
    applyMemories(recalled.store, invoice, recalled.memories, today))

ProcessInvoiceResult(st, invoice, today) ==
  ProcessApply(invoice, today, ProcessorRecallMemories(st, invoice, today))

\* --------------------------------------------------- processHumanFeedback
extractVendorFromFeedback(feedback) ==
  CASE feedback.invoiceId \in {"inv-001", "inv-005"} -> "Supplier GmbH"
    [] feedback.invoiceId = "inv-002" -> "Parts AG"
    [] feedback.invoiceId = "inv-003" -> "Freight & Co"
    [] feedback.invoiceId \in {"final-test-1"} -> "Final Test Vendor"
    [] feedback.invoiceId \in {"debug-1"} -> "Debug Vendor"
    [] OTHER -> "Test Vendor"

\* correction.reason?.includes(cue), for the reasons the model submits
ReasonIncludes(reason, cue) ==
  CASE cue = "Leistungsdatum" -> reason = "Leistungsdatum is the service date"
    [] cue = "MwSt. inkl." -> reason = "MwSt. inkl. means VAT is included"
    [] cue = "FREIGHT" -> reason = "Map shipping to SKU FREIGHT"
    [] OTHER -> FALSE

\* Every correction kept as a generic correction memory, whatever its field
FeedbackMemoryGeneric(st, vendor, correction, today) ==
  NewCorrectionMemory(st, vendor, correction.field, "human_correction",
    correction.correctedValue,
    IF correction.reason # Undef /\ correction.reason # "" THEN correction.reason
    ELSE "Human correction",
    7000, today)

FeedbackMemory(st, vendor, correction, today) ==
  IF correction.field = "serviceDate" /\ ReasonIncludes(correction.reason, "Leistungsdatum")
    THEN NewVendorMemory(st, vendor, "Leistungsdatum",
           [NoAction EXCEPT !.type = "field_mapping", !.targetField = "serviceDate",
                            !.strategy = "extract_from_text"],
           "leistungsdatum_mapping", 7000, today)
  ELSE IF correction.field = "vatIncluded" /\ ReasonIncludes(correction.reason, "MwSt. inkl.")
    THEN NewVendorMemory(st, vendor, "MwSt. inkl.",
           [NoAction EXCEPT !.type = "computation", !.targetField = "vatIncluded",
                            !.value = Bool(TRUE), !.strategy = "vat_included_detection"],
           "vat_included_pattern", 8000, today)
  ELSE IF correction.field = "currency" /\ correction.correctedValue = Str("EUR")
    THEN NewVendorMemory(st, vendor, vendor,
           [NoAction EXCEPT !.type = "inference", !.targetField = "currency",
                            !.value = Str("EUR"), !.strategy = "vendor_default_currency"],
           "currency_inference", 6000, today)
  ELSE IF correction.field = "lineItems" /\ ReasonIncludes(correction.reason, "FREIGHT")
    THEN NewVendorMemory(st, vendor, "Freight Services",
           [NoAction EXCEPT !.type = "field_mapping", !.targetField = "lineItems",
                            !.value = Str("FREIGHT"), !.strategy = "sku_mapping"],
           "freight_sku_mapping", 7000, today)
  ELSE NewCorrectionMemory(st, vendor, correction.field, "human_correction",
         correction.correctedValue,
         IF correction.reason # Undef /\ correction.reason # "" THEN correction.reason
         ELSE "Human correction",
         7000, today)

RECURSIVE FeedbackLoop(_, _, _, _)
FeedbackLoop(st, feedback, corrections, today) ==
  IF corrections = <<>> THEN st
  ELSE FeedbackLoop(
         SaveMemory(st, FeedbackMemory(st, extractVendorFromFeedback(feedback),
                                       Head(corrections), today)),
         feedback, Tail(corrections), today)

\* Approved feedback reinforcing the oldest memory
ProcessHumanFeedbackReinforcing(st, feedback, today) ==
  IF feedback.approved
    THEN ReinforceMemory(FeedbackLoop(st, feedback, feedback.corrections, today),
                         1, DEFAULT_REINFORCE_STRENGTH, today)
    ELSE FeedbackLoop(st, feedback, feedback.corrections, today)

\* approved feedback adds nothing: the branch is empty in the source
ProcessHumanFeedback(st, feedback, today) ==
  FeedbackLoop(st, feedback, feedback.corrections, today)

\* ------------------------------------------------------------------ inputs
Vendors == {"Supplier GmbH", "Parts AG"}

NoData == [f \in Fields |-> UndefV]

\* inv-001: service date only in the text, no PO number, an item without SKU
Invoice1 ==
  [id |-> "inv-001", vendor |-> "Supplier GmbH",
   rawText |-> {"Leistungsdatum", "EUR"}, labelDate |-> "2024-01-10",
   metadata |-> [source |-> "email_attachment", extractedAt |-> "2024-01-15T10:00:00Z",
                 processingId |-> "proc-001"],
   extractedData |-> [NoData EXCEPT
     !["date"] = Str("2024-01-15"), !["amount"] = Num(119000),
     !["currency"] = Str("EUR"), !["vatAmount"] = Num(19000),
     !["vatIncluded"] = Bool(FALSE),
     !["lineItems"] = Arr(<<[description |-> "Software License", sku |-> Undef,
                             totalPrice |-> 100000]>>)]]

\* inv-002: no currency, no PO number, VAT status and VAT amount unknown
Invoice2 ==
  [id |-> "inv-002", vendor |-> "Parts AG",
   rawText |-> {"MwSt. inkl.", "Prices incl. VAT", "EUR"}, labelDate |-> Undef,
   metadata |-> [source |-> "api_upload", extractedAt |-> "2024-01-16T11:00:00Z",
                 processingId |-> "proc-002"],
   extractedData |-> [NoData EXCEPT
     !["date"] = Str("2024-01-16"), !["serviceDate"] = Str("2024-01-16"),
     !["amount"] = Num(250000),
     !["lineItems"] = Arr(<<[description |-> "Hardware Components", sku |-> "HW-1",
                             totalPrice |-> 250000]>>)]]

Invoices == {Invoice1, Invoice2}

LeistungsdatumAction ==
  [NoAction EXCEPT !.type = "field_mapping", !.targetField = "serviceDate",
                   !.strategy = "extract_from_text"]

CurrencyFromTextAction ==
  [NoAction EXCEPT !.type = "inference", !.targetField = "currency",
                   !.strategy = "currency_from_text"]

\* createVendorMemory calls; initialConfidence AbsentN is an omitted argument
VendorCalls ==
  {[vendor |-> "Supplier GmbH", triggerSignal |-> "Leistungsdatum",
    action |-> LeistungsdatumAction, pattern |-> "leistungsdatum_mapping",
    initialConfidence |-> 7200],
   [vendor |-> "Parts AG", triggerSignal |-> "Parts AG",
    action |-> CurrencyFromTextAction, pattern |-> "currency_inference",
    initialConfidence |-> AbsentN]}

CorrectionCalls ==
  {[vendor |-> "Supplier GmbH", fieldName |-> "poNumber",
    originalPattern |-> "human_correction", correctedValue |-> Str("PO-1"),
    correctionReason |-> "PO from contract", initialConfidence |-> 9900],
   [vendor |-> "Parts AG", fieldName |-> "currency",
    originalPattern |-> "^$", correctedValue |-> Str("USD"),
    correctionReason |-> "US subsidiary", initialConfidence |-> 3000]}

ResolutionCalls ==
  {[vendor |-> "Supplier GmbH",
    scenario |-> <<"missing_po", "missing_service_date">>, outcome |-> "approved",
    systemAction |-> "escalated", humanFeedback |-> Undef,
    initialConfidence |-> 500]}

\* strength arguments; AbsentN is an omitted argument
ReinforceStrengths == {200, 5000}
WeakenStrengths == {AbsentN, 5000}

\* recallMemories query arguments
Queries ==
  {NoOverride,
   [NoOverride EXCEPT !.minConfidence = 5000]}

FbCorrection(field, value, reason) ==
  [field |-> field, correctedValue |-> value, reason |-> reason]

Feedbacks ==
  {[invoiceId |-> "inv-002", approved |-> TRUE,
    corrections |-> <<FbCorrection("currency", Str("USD"), Undef),
                      FbCorrection("currency", Str("GBP"), "Invoiced in pounds"),
                      FbCorrection("poNumber", Str("PO-7"), Undef),
                      FbCorrection("poNumber", Str("PO-8"), Undef)>>],
   [invoiceId |-> "inv-002", approved |-> FALSE,
    corrections |-> <<FbCorrection("currency", Str("USD"), Undef),
                      FbCorrection("currency", Str("USD"), Undef),
                      FbCorrection("vatIncluded", Bool(TRUE),
                                   "MwSt. inkl. means VAT is included")>>],
   [invoiceId |-> "inv-001", approved |-> TRUE,
    corrections |-> <<FbCorrection("serviceDate", Str("2024-01-10"),
                                   "Leistungsdatum is the service date"),
                      FbCorrection("currency", Str("EUR"), Undef)>>],
   [invoiceId |-> "inv-003", approved |-> FALSE,
    corrections |-> <<FbCorrection("lineItems", Str("FREIGHT"),
                                   "Map shipping to SKU FREIGHT"),
                      FbCorrection("serviceDate", Str("2024-02-01"), "")>>]}

\* days that pass between one call and the next
Elapsed == {0, 7}

\* ----------------------------------------------------------------- actions
OrDefault(arg, default) == IF arg = AbsentN THEN default ELSE arg

NoDecision == [confidence |-> 0, corrections |-> <<>>, out |-> <<>>]

InitOp ==
  [op |-> "init", day |-> 1, pre |-> <<>>, id |-> 0, strength |-> 0,
   invoice |-> <<>>, query |-> <<>>, returned |-> <<>>, recalled |-> <<>>,
   conflicts |-> <<>>, result |-> NoResult, feedback |-> <<>>,
   invoiceAfter |-> <<>>, failed |-> FALSE]

\* The callers whose reinforceMemory calls may overlap
Callers == {1, 2}

\* No call has started
NoneInFlight ==
  [p \in Callers |-> [pc |-> "idle", memoryId |-> 0, strength |-> 0, memory |-> <<>>]]

Init ==
  /\ store = <<>>
  /\ now = 1
  /\ ops = 0
  /\ lastOp = InitOp
  /\ lastUse = <<>>
  /\ decideCall = NoDecision
  /\ inFlight = NoneInFlight

\* Every call reads the clock once; dt days have passed since the last call.
Clock(dt) ==
  /\ ops < MaxOps
  /\ now + dt <= MaxDay
  /\ now' = now + dt
  /\ ops' = ops + 1
  /\ UNCHANGED <<decideCall, inFlight>>

\* lastUse after a call that changed the store from st to st2, having passed
\* the ids in used to reinforceMemory
NextLastUse(st2, used, today) ==
  [i \in DOMAIN st2 |->
     IF i \notin DOMAIN lastUse \/ i \in used THEN today ELSE lastUse[i]]

CreateVendor(dt, c) ==
  /\ Clock(dt)
  /\ Len(store) < MaxMem
  /\ store' = CreateVendorMemory(store, c.vendor, c.triggerSignal, c.action, c.pattern,
                 OrDefault(c.initialConfidence, DEFAULT_VENDOR_CONFIDENCE), now')
  /\ lastOp' = [InitOp EXCEPT !.op = "createVendorMemory", !.day = now', !.pre = store,
                              !.id = NextId(store), !.strength = c.initialConfidence]
  /\ lastUse' = NextLastUse(store', {}, now')

CreateCorrection(dt, c) ==
  /\ Clock(dt)
  /\ Len(store) < MaxMem
  /\ store' = CreateCorrectionMemory(store, c.vendor, c.fieldName, c.originalPattern,
                 c.correctedValue, c.correctionReason,
                 OrDefault(c.initialConfidence, DEFAULT_CORRECTION_CONFIDENCE), now')
  /\ lastOp' = [InitOp EXCEPT !.op = "createCorrectionMemory", !.day = now', !.pre = store,
                              !.id = NextId(store), !.strength = c.initialConfidence]
  /\ lastUse' = NextLastUse(store', {}, now')

CreateResolution(dt, c) ==
  /\ Clock(dt)
  /\ Len(store) < MaxMem
  /\ store' = CreateResolutionMemory(store, c.vendor, c.scenario, c.outcome,
                 c.systemAction, c.humanFeedback,
                 OrDefault(c.initialConfidence, DEFAULT_RESOLUTION_CONFIDENCE), now')
  /\ lastOp' = [InitOp EXCEPT !.op = "createResolutionMemory", !.day = now', !.pre = store,
                              !.id = NextId(store), !.strength = c.initialConfidence]
  /\ lastUse' = NextLastUse(store', {}, now')

Reinforce(dt, memoryId, strength) ==
  /\ Clock(dt)
  /\ store' = ReinforceMemory(store, memoryId,
                 OrDefault(strength, DEFAULT_REINFORCE_STRENGTH), now')
  /\ lastOp' = [InitOp EXCEPT !.op = "reinforceMemory", !.day = now', !.pre = store,
                  !.id = memoryId,
                  !.strength = OrDefault(strength, DEFAULT_REINFORCE_STRENGTH)]
  /\ lastUse' = NextLastUse(store',
                  IF FindMemory(store, memoryId) # <<>> THEN {memoryId} ELSE {}, now')

Weaken(dt, memoryId, strength) ==
  /\ Clock(dt)
  /\ store' = WeakenMemory(store, memoryId,
                 OrDefault(strength, DEFAULT_WEAKEN_STRENGTH), now')
  /\ lastOp' = [InitOp EXCEPT !.op = "weakenMemory", !.day = now', !.pre = store,
                  !.id = memoryId,
                  !.strength = OrDefault(strength, DEFAULT_WEAKEN_STRENGTH)]
  /\ lastUse' = NextLastUse(store', {}, now')

Recall(dt, invoice, query) ==
  /\ Clock(dt)
  /\ \E r \in {RecallMemories(store, invoice, query, now')} :
        /\ store' = r.store
        /\ lastOp' = [InitOp EXCEPT !.op = "recallMemories", !.day = now', !.pre = store,
                        !.invoice = <<invoice>>, !.query = <<FullQuery(invoice, query)>>,
                        !.returned = r.memories]
  /\ lastUse' = NextLastUse(store', {}, now')

\* The memories a result's corrections came from
SourcesOf(result) ==
  {result.proposedCorrections[i].memorySource : i \in DOMAIN result.proposedCorrections}

\* A run that takes the day from the call before it instead of reading the clock
ProcessInvoiceStaleClock(dt, invoice) ==
  /\ Clock(dt)
  /\ \E r \in {ProcessInvoiceResult(store, invoice, now)} :
        /\ store' = r.store
        /\ lastOp' = [InitOp EXCEPT !.op = "processInvoice", !.day = now', !.pre = store,
                        !.invoice = <<invoice>>, !.recalled = r.recalled,
                        !.conflicts = r.conflicts, !.result = r.result,
                        !.invoiceAfter = <<InvoiceAfterCorrections(invoice,
                                             r.result[1].proposedCorrections)>>]
        /\ lastUse' = NextLastUse(r.store, SourcesOf(r.result[1]), now')

ProcessInvoice(dt, invoice) ==
  /\ Clock(dt)
  /\ \E r \in {ProcessInvoiceResult(store, invoice, now')} :
        /\ store' = r.store
        /\ lastOp' = [InitOp EXCEPT !.op = "processInvoice", !.day = now', !.pre = store,
                        !.invoice = <<invoice>>, !.recalled = r.recalled,
                        !.conflicts = r.conflicts, !.result = r.result,
                        !.invoiceAfter = <<InvoiceAfterCorrections(invoice,
                                             r.result[1].proposedCorrections)>>]
        /\ lastUse' = NextLastUse(r.store, SourcesOf(r.result[1]), now')

Feedback(dt, feedback) ==
  /\ Clock(dt)
  /\ Len(store) + Len(feedback.corrections) <= MaxMem
  /\ store' = ProcessHumanFeedback(store, feedback, now')
  /\ lastOp' = [InitOp EXCEPT !.op = "processHumanFeedback", !.day = now', !.pre = store,
                              !.feedback = <<feedback>>]
  /\ lastUse' = NextLastUse(store', {}, now')

Next ==
  \/ \E dt \in Elapsed, c \in VendorCalls : CreateVendor(dt, c)
  \/ \E dt \in Elapsed, c \in CorrectionCalls : CreateCorrection(dt, c)
  \/ \E dt \in Elapsed, c \in ResolutionCalls : CreateResolution(dt, c)
  \/ \E dt \in Elapsed, id \in 1..(Len(store) + 1), s \in ReinforceStrengths : Reinforce(dt, id, s)
  \/ \E dt \in Elapsed, id \in 1..(Len(store) + 1), s \in WeakenStrengths : Weaken(dt, id, s)
  \/ \E dt \in Elapsed, i \in Invoices, q \in Queries : Recall(dt, i, q)
  \/ \E dt \in Elapsed, i \in Invoices : ProcessInvoice(dt, i)
  \/ \E dt \in Elapsed, f \in Feedbacks : Feedback(dt, f)

Spec == Init /\ [][Next]_vars

\* ------------------------------------------- makeDecision as a pure function
DecisionConfidences == {3999, 4000, 6499, 6500, 8499, 8500, 9000}
DecisionCorrectionConfidences == {5999, 6000, 6999, 7000}
DecisionFields == {"currency", "vatAmount"}

DecisionCorrection(field, confidence) ==
  [field |-> field, originalValue |-> UndefV, proposedValue |-> Str("x"),
   confidence |-> confidence, memorySource |-> 1, reasoning |-> <<>>]

DecisionCorrections ==
  {DecisionCorrection(f, c) : f \in DecisionFields, c \in DecisionCorrectionConfidences}

SeqsUpTo(S, n) == UNION {[1..k -> S] : k \in 0..n}

\* The memory store at the time of the call: empty, or holding a memory
DecisionStores ==
  {<<>>,
   CreateVendorMemory(<<>>, "Supplier GmbH", "Leistungsdatum", LeistungsdatumAction,
                      "leistungsdatum_mapping", DEFAULT_VENDOR_CONFIDENCE, 1)}

InitDecide ==
  /\ store \in DecisionStores
  /\ now = 1
  /\ ops = 0
  /\ lastOp = InitOp
  /\ lastUse = [i \in DOMAIN store |-> 1]
  /\ decideCall \in [confidence : DecisionConfidences,
                   corrections : SeqsUpTo(DecisionCorrections, MaxCorrections),
                   out : {<<>>}]
  /\ inFlight = NoneInFlight

Decide ==
  /\ decideCall.out = <<>>
  /\ decideCall' = [decideCall EXCEPT
                    !.out = <<makeDecision(decideCall.confidence, decideCall.corrections)>>]
  /\ UNCHANGED <<store, now, ops, lastOp, lastUse, inFlight>>

NextDecide == Decide

SpecDecide == InitDecide /\ [][NextDecide]_vars

\* ------------------------------------------------- the create / recall round trip
\* createCorrectionMemory(vendor, 'currency', 'human_correction', 'EUR', reason)
\* with the confidence argument left out, among other memories of the vendor
\* and of another vendor, then recalls by type and field at any later day.
RoundTripCall ==
  [vendor |-> "Parts AG", fieldName |-> "currency",
   originalPattern |-> "human_correction", correctedValue |-> Str("EUR"),
   correctionReason |-> "Always billed in EUR", initialConfidence |-> AbsentN]

RoundTripCorrectionCalls ==
  {RoundTripCall,
   [vendor |-> "Supplier GmbH", fieldName |-> "currency",
    originalPattern |-> "human_correction", correctedValue |-> Str("CHF"),
    correctionReason |-> "Swiss branch", initialConfidence |-> AbsentN],
   [vendor |-> "Parts AG", fieldName |-> "poNumber",
    originalPattern |-> "human_correction", correctedValue |-> Str("PO-1"),
    correctionReason |-> "PO from contract", initialConfidence |-> 9900]}

RoundTripQueries ==
  {[NoOverride EXCEPT !.type = "correction", !.fieldName = "currency"],
   [NoOverride EXCEPT !.type = "correction", !.fieldName = "currency",
                      !.minConfidence = 3900]}

RoundTripElapsed == {0, 1, 8}

NextRoundTrip ==
  \/ \E dt \in RoundTripElapsed, c \in RoundTripCorrectionCalls : CreateCorrection(dt, c)
  \/ \E dt \in RoundTripElapsed, c \in VendorCalls : CreateVendor(dt, c)
  \/ \E dt \in RoundTripElapsed, id \in 1..Len(store), s \in ReinforceStrengths :
        Reinforce(dt, id, s)
  \/ \E dt \in RoundTripElapsed, id \in 1..Len(store), s \in WeakenStrengths :
        Weaken(dt, id, s)
  \/ \E dt \in RoundTripElapsed, q \in RoundTripQueries : Recall(dt, Invoice2, q)

SpecRoundTrip == Init /\ [][NextRoundTrip]_vars

\* ------------------------------------------------------ conflicting memories
\* Correction memories for one field of one vendor, with two values and
\* confidences from the application threshold to the cap, then processInvoice.
ConflictValues == {"PO-1", "PO-2"}
ConflictConfidences == {5000, 7000, 9500}

ConflictCalls ==
  {[vendor |-> "Supplier GmbH", fieldName |-> "poNumber",
    originalPattern |-> "human_correction", correctedValue |-> Str(v),
    correctionReason |-> "PO from contract", initialConfidence |-> c] :
     v \in ConflictValues, c \in ConflictConfidences}

NextConflict ==
  \/ \E dt \in Elapsed, c \in ConflictCalls : CreateCorrection(dt, c)
  \/ \E dt \in Elapsed, c \in VendorCalls : CreateVendor(dt, c)
  \/ \E dt \in Elapsed : ProcessInvoice(dt, Invoice1)

SpecConflict == Init /\ [][NextConflict]_vars

\* ------------------------------------------ reinforceMemory calls that overlap
\* reinforceMemory awaits the store four times; between two awaits of one
\* call the statements of another call may run.  Each action below is one
\* call up to its next await.

RaceConfidences == {7200, 9400}

\* A vendor memory and a correction memory, created on day 1
RaceStore(c) ==
  CreateCorrectionMemory(
    CreateVendorMemory(<<>>, "Supplier GmbH", "Leistungsdatum", LeistungsdatumAction,
                       "leistungsdatum_mapping", c, 1),
    "Supplier GmbH", "poNumber", "human_correction", Str("PO-1"), "PO from contract",
    DEFAULT_CORRECTION_CONFIDENCE, 1)

RaceStrengths == {APPLY_REINFORCE_STRENGTH, DEFAULT_REINFORCE_STRENGTH}

InitRace ==
  /\ store \in {RaceStore(c) : c \in RaceConfidences}
  /\ now = 1
  /\ ops = 0
  /\ lastOp = [InitOp EXCEPT !.pre = store]
  /\ lastUse = [i \in DOMAIN store |-> 1]
  /\ decideCall = NoDecision
  /\ inFlight = NoneInFlight

\* const memories = await queryMemories({}); memory = memories.find(...);
\* if (!memory) return
ReinforceRead(p, memoryId, strength) ==
  /\ inFlight[p].pc = "idle"
  /\ inFlight' = [inFlight EXCEPT ![p] =
       [pc |-> IF FindMemory(store, memoryId) = <<>> THEN "done" ELSE "confidence",
        memoryId |-> memoryId, strength |-> strength,
        memory |-> FindMemory(store, memoryId)]]
  /\ UNCHANGED <<store, now, ops, lastOp, lastUse, decideCall>>

\* The confidence update as an increment of the stored value
ReinforceUpdateConfidenceInStore(p) ==
  /\ inFlight[p].pc = "confidence"
  /\ store' = UpdateMemoryConfidence(store, inFlight[p].memoryId,
                 ReinforcedConfidence(store[inFlight[p].memoryId].confidence,
                                      inFlight[p].strength), now)
  /\ inFlight' = [inFlight EXCEPT ![p].pc = "usage"]
  /\ UNCHANGED <<now, ops, lastOp, lastUse, decideCall>>

\* newConfidence = min(memory.confidence + increase, MAX_CONFIDENCE), from the
\* memory that was read; await updateMemoryConfidence(memoryId, newConfidence)
ReinforceUpdateConfidence(p) ==
  /\ inFlight[p].pc = "confidence"
  /\ store' = UpdateMemoryConfidence(store, inFlight[p].memoryId,
                 ReinforcedConfidence(inFlight[p].memory[1].confidence,
                                      inFlight[p].strength), now)
  /\ inFlight' = [inFlight EXCEPT ![p].pc = "usage"]
  /\ UNCHANGED <<now, ops, lastOp, lastUse, decideCall>>

\* await updateMemoryUsage(memoryId): usage_count = usage_count + 1 in the store
ReinforceUpdateUsage(p) ==
  /\ inFlight[p].pc = "usage"
  /\ store' = UpdateMemoryUsage(store, inFlight[p].memoryId, now)
  /\ inFlight' = [inFlight EXCEPT ![p].pc =
       IF inFlight[p].memory[1].type = "correction" THEN "save" ELSE "done"]
  /\ UNCHANGED <<now, ops, lastOp, lastUse, decideCall>>

\* corrMem.approvalCount += 1; await saveMemory(corrMem)
ReinforceSave(p) ==
  /\ inFlight[p].pc = "save"
  /\ store' = SaveMemory(store, [inFlight[p].memory[1] EXCEPT !.approvalCount = @ + 1])
  /\ inFlight' = [inFlight EXCEPT ![p].pc = "done"]
  /\ UNCHANGED <<now, ops, lastOp, lastUse, decideCall>>

NextRace ==
  \/ \E p \in Callers, id \in 1..3, s \in RaceStrengths : ReinforceRead(p, id, s)
  \/ \E p \in Callers : ReinforceUpdateConfidence(p)
  \/ \E p \in Callers : ReinforceUpdateUsage(p)
  \/ \E p \in Callers : ReinforceSave(p)

SpecRace == InitRace /\ [][NextRace]_vars

\* ----------------------------- weakenMemory calls that overlap with the others
\* weakenMemory awaits the store up to four times; each action below is one
\* call up to its next await.  The memory object it read is kept in inFlight.

RaceWeakenConfidences == {3000, 7200}

RaceWeakenStrengths == {DEFAULT_WEAKEN_STRENGTH, 5000}

InitRaceWeaken ==
  /\ store \in {RaceStore(c) : c \in RaceWeakenConfidences}
  /\ now = 1
  /\ ops = 0
  /\ lastOp = [InitOp EXCEPT !.pre = store]
  /\ lastUse = [i \in DOMAIN store |-> 1]
  /\ decideCall = NoDecision
  /\ inFlight = NoneInFlight

\* newConfidence of a weakenMemory call, from the memory that was read
WeakenNewConfidence(call) == WeakenedConfidence(call.memory[1].confidence, call.strength)

\* if (newConfidence <= MIN_CONFIDENCE) { ... } or the end of the call
WeakenAfterSave(call) ==
  IF WeakenNewConfidence(call) <= MIN_CONFIDENCE THEN "weakenDeactivate" ELSE "done"

\* const memories = await queryMemories({}); memory = memories.find(...);
\* if (!memory) return
WeakenRead(p, memoryId, strength) ==
  /\ inFlight[p].pc = "idle"
  /\ inFlight' = [inFlight EXCEPT ![p] =
       [pc |-> IF FindMemory(store, memoryId) = <<>> THEN "done" ELSE "weakenConfidence",
        memoryId |-> memoryId, strength |-> strength,
        memory |-> FindMemory(store, memoryId)]]
  /\ UNCHANGED <<store, now, ops, lastOp, lastUse, decideCall>>

\* await updateMemoryConfidence(memoryId, newConfidence)
WeakenUpdateConfidence(p) ==
  /\ inFlight[p].pc = "weakenConfidence"
  /\ store' = UpdateMemoryConfidence(store, inFlight[p].memoryId,
                 WeakenNewConfidence(inFlight[p]), now)
  /\ inFlight' = [inFlight EXCEPT ![p].pc =
       IF inFlight[p].memory[1].type = "correction" THEN "weakenSave"
       ELSE WeakenAfterSave(inFlight[p])]
  /\ UNCHANGED <<now, ops, lastOp, lastUse, decideCall>>

\* corrMem.rejectionCount += 1; await saveMemory(corrMem)
WeakenSave(p) ==
  /\ inFlight[p].pc = "weakenSave"
  /\ store' = SaveMemory(store, [inFlight[p].memory[1] EXCEPT !.rejectionCount = @ + 1])
  /\ inFlight' = [inFlight EXCEPT ![p].pc = WeakenAfterSave(inFlight[p]),
                                  ![p].memory[1].rejectionCount = @ + 1]
  /\ UNCHANGED <<now, ops, lastOp, lastUse, decideCall>>

\* memory.isActive = false; await saveMemory(memory)
WeakenDeactivate(p) ==
  /\ inFlight[p].pc = "weakenDeactivate"
  /\ store' = SaveMemory(store, [inFlight[p].memory[1] EXCEPT !.isActive = FALSE])
  /\ inFlight' = [inFlight EXCEPT ![p].pc = "done", ![p].memory[1].isActive = FALSE]
  /\ UNCHANGED <<now, ops, lastOp, lastUse, decideCall>>

NextRaceWeaken ==
  \/ \E p \in Callers, id \in 1..2, s \in RaceStrengths : ReinforceRead(p, id, s)
  \/ \E p \in Callers : ReinforceUpdateConfidence(p)
  \/ \E p \in Callers : ReinforceUpdateUsage(p)
  \/ \E p \in Callers : ReinforceSave(p)
  \/ \E p \in Callers, id \in 1..2, s \in RaceWeakenStrengths : WeakenRead(p, id, s)
  \/ \E p \in Callers : WeakenUpdateConfidence(p)
  \/ \E p \in Callers : WeakenSave(p)
  \/ \E p \in Callers : WeakenDeactivate(p)

SpecRaceWeaken == InitRaceWeaken /\ [][NextRaceWeaken]_vars

\* ------------------------------------------------ any strength argument
\* reinforceMemory and weakenMemory take the strength as a number and do not
\* validate it: -0.3, 0, 0.02 and 0.5

StrengthArguments == {-3000, 0, 200, 5000}

StrengthConfidences == {2000, 9000}

InitStrength ==
  /\ store \in {RaceStore(c) : c \in StrengthConfidences}
  /\ now = 1
  /\ ops = 0
  /\ lastOp = InitOp
  /\ lastUse = [i \in DOMAIN store |-> 1]
  /\ decideCall = NoDecision
  /\ inFlight = NoneInFlight

NextStrength ==
  \/ \E dt \in Elapsed, id \in DOMAIN store, s \in StrengthArguments : Reinforce(dt, id, s)
  \/ \E dt \in Elapsed, id \in DOMAIN store, s \in StrengthArguments : Weaken(dt, id, s)

SpecStrength == InitStrength /\ [][NextStrength]_vars

\* --------------------------------------------- resolution memories recalled
\* Resolution memories that pass the recall threshold: for the scenario of
\* inv-001, for another scenario, and for the other vendor

RecalledResolutionCalls ==
  {[vendor |-> "Supplier GmbH",
    scenario |-> <<"missing_po", "missing_service_date">>, outcome |-> "approved",
    systemAction |-> "escalated", humanFeedback |-> Undef,
    initialConfidence |-> AbsentN],
   [vendor |-> "Supplier GmbH",
    scenario |-> <<"standard">>, outcome |-> "rejected",
    systemAction |-> "auto_corrected", humanFeedback |-> Undef,
    initialConfidence |-> 9000],
   [vendor |-> "Parts AG",
    scenario |-> <<"missing_po", "missing_service_date", "missing_currency">>,
    outcome |-> "approved", systemAction |-> "escalated", humanFeedback |-> Undef,
    initialConfidence |-> 9000]}

NextResolution ==
  \/ \E dt \in Elapsed, c \in RecalledResolutionCalls : CreateResolution(dt, c)
  \/ \E dt \in Elapsed, c \in VendorCalls : CreateVendor(dt, c)
  \/ \E dt \in Elapsed, c \in CorrectionCalls : CreateCorrection(dt, c)
  \/ \E dt \in Elapsed, i \in Invoices : ProcessInvoice(dt, i)

SpecResolution == Init /\ [][NextResolution]_vars

\* ------------------------------------------------ an invoice without vendor
\* inv-001 as extracted when the vendor could not be read: vendor is ''

InvoiceNoVendor == [Invoice1 EXCEPT !.id = "inv-004", !.vendor = ""]

NextNoVendor ==
  \/ \E dt \in Elapsed, c \in VendorCalls : CreateVendor(dt, c)
  \/ \E dt \in Elapsed, c \in CorrectionCalls : CreateCorrection(dt, c)
  \/ \E dt \in Elapsed, i \in Invoices \cup {InvoiceNoVendor} : ProcessInvoice(dt, i)

SpecNoVendor == Init /\ [][NextNoVendor]_vars

\* ------------------------------------ correction memories for any field
\* Human corrections recorded for fields that an invoice may or may not lack

FieldIssueFields == {"serviceDate", "currency", "poNumber", "amount", "lineItems"}

FieldIssueCalls ==
  {[vendor |-> v, fieldName |-> f,
    originalPattern |-> "human_correction", correctedValue |-> Str("corrected"),
    correctionReason |-> "Human correction", initialConfidence |-> 7000] :
     v \in {"Supplier GmbH", "Parts AG"}, f \in FieldIssueFields}

NextFieldIssues ==
  \/ \E dt \in Elapsed, c \in FieldIssueCalls : CreateCorrection(dt, c)
  \/ \E dt \in Elapsed, i \in Invoices : ProcessInvoice(dt, i)

SpecFieldIssues == Init /\ [][NextFieldIssues]_vars

\* ------------------------------------- patterns that are no regular expression
\* Correction memories whose originalPattern makes new RegExp(pattern) throw

InvalidPatternCalls ==
  {[vendor |-> "Supplier GmbH", fieldName |-> f,
    originalPattern |-> p, correctedValue |-> Str("corrected"),
    correctionReason |-> "Human correction", initialConfidence |-> 7000] :
     f \in {"poNumber", "lineItems"}, p \in {"(", "["}}

NextInvalidPattern ==
  \/ \E dt \in Elapsed, c \in InvalidPatternCalls : CreateCorrection(dt, c)
  \/ \E dt \in Elapsed, c \in VendorCalls : CreateVendor(dt, c)
  \/ \E dt \in Elapsed, i \in Invoices : ProcessInvoice(dt, i)

SpecInvalidPattern == Init /\ [][NextInvalidPattern]_vars

\* ------------------------------------------------------ recall with a limit
\* Queries that cap the result: limit 0, 1, 2 and the default

LimitQueries == {[NoOverride EXCEPT !.limit = l] : l \in {AbsentN, 0, 1, 2}}

NextLimit ==
  \/ \E dt \in Elapsed, c \in VendorCalls : CreateVendor(dt, c)
  \/ \E dt \in Elapsed, c \in CorrectionCalls : CreateCorrection(dt, c)
  \/ \E dt \in Elapsed, i \in Invoices, q \in LimitQueries : Recall(dt, i, q)

SpecLimit == Init /\ [][NextLimit]_vars

\* ------------------------------------------ recalls after the grace period
\* Memories left unused for more than DECAY_GRACE_DAYS and recalled, once or
\* several times on one day

DecayElapsed == {0, DECAY_GRACE_DAYS + 2}

NextDecay ==
  \/ \E dt \in DecayElapsed, c \in VendorCalls : CreateVendor(dt, c)
  \/ \E dt \in DecayElapsed, c \in CorrectionCalls : CreateCorrection(dt, c)
  \/ \E dt \in DecayElapsed, i \in Invoices : Recall(dt, i, NoOverride)

SpecDecay == Init /\ [][NextDecay]_vars

\* --------------------------------------------- feedback that sets the currency
\* Human corrections of the currency to 'EUR', alone or with a PO number, and
\* invoices of the same vendors processed afterwards

CurrencyFeedbacks ==
  {[invoiceId |-> id, approved |-> a, corrections |-> c] :
     id \in {"inv-001", "inv-002"}, a \in BOOLEAN,
     c \in {<<FbCorrection("currency", Str("EUR"), Undef)>>,
            <<FbCorrection("currency", Str("EUR"), "Vendor invoices in euro"),
              FbCorrection("poNumber", Str("PO-7"), Undef)>>}}

NextCurrency ==
  \/ \E dt \in Elapsed, f \in CurrencyFeedbacks : Feedback(dt, f)
  \/ \E dt \in Elapsed, i \in Invoices : ProcessInvoice(dt, i)

SpecCurrency == Init /\ [][NextCurrency]_vars

\* ------------------------------------------- feedback about the line items
\* inv-003 and the human corrections of its line items (the SKU to be FREIGHT)

Invoice3 ==
  [id |-> "inv-003", vendor |-> "Freight & Co",
   rawText |-> {"Freight Services", "USD"}, labelDate |-> Undef,
   metadata |-> [source |-> "manual_entry", extractedAt |-> "2024-01-17T12:00:00Z",
                 processingId |-> "proc-003"],
   extractedData |-> [NoData EXCEPT
     !["date"] = Str("2024-01-17"), !["amount"] = Num(15000),
     !["currency"] = Str("USD"),
     !["lineItems"] = Arr(<<[description |-> "Freight Services - Standard Delivery",
                             sku |-> Undef, totalPrice |-> 15000]>>)]]

LineItemsCorrected ==
  Arr(<<[description |-> "Freight Services - Standard Delivery",
         sku |-> "FREIGHT", totalPrice |-> 15000]>>)

LineItemFeedbacks ==
  {[invoiceId |-> "inv-003", approved |-> a, corrections |-> c] :
     a \in BOOLEAN,
     c \in {<<FbCorrection("lineItems", LineItemsCorrected, "Map shipping to SKU FREIGHT")>>,
            <<FbCorrection("lineItems", LineItemsCorrected, Undef)>>,
            <<FbCorrection("poNumber", Str("PO-7"), Undef),
              FbCorrection("lineItems", LineItemsCorrected, "Map shipping to SKU FREIGHT")>>}}

NextLineItems ==
  \/ \E dt \in Elapsed, f \in LineItemFeedbacks : Feedback(dt, f)
  \/ \E dt \in Elapsed : ProcessInvoice(dt, Invoice3)

SpecLineItems == Init /\ [][NextLineItems]_vars

\* --------------------------------------------- one invoice processed again
\* Vendor memories created just below and above the confidence that makes a
\* correction reliable, and invoices processed repeatedly with no feedback in
\* between

RepeatConfidences == {5000, RELIABLE_CORRECTION - 100, 7200}

RepeatCalls ==
  {[c EXCEPT !.initialConfidence = x] : c \in VendorCalls, x \in RepeatConfidences}

NextRepeat ==
  \/ \E dt \in Elapsed, c \in RepeatCalls : CreateVendor(dt, c)
  \/ \E dt \in Elapsed, i \in Invoices : ProcessInvoice(dt, i)

SpecRepeat == Init /\ [][NextRepeat]_vars

\* ------------------------------------------- a store operation that fails
\* Neither the manager nor the processor catches the rejection of a store
\* call, and the store has no transaction: the call ends where the store
\* failed, and what it wrote before stays written.

\* The call of reinforceMemory or saveMemory, counted within one call of
\* processInvoice or processHumanFeedback, that the store rejects
FailurePoints == 1..3

\* The loop of applyMemories when the k-th call of reinforceMemory is rejected
\* at its first statement: the loop ends there with what it did before.
RECURSIVE ApplyLoopFailing(_, _, _, _, _)
ApplyLoopFailing(acc, invoice, memories, today, k) ==
  IF memories = <<>> THEN [acc |-> acc, failed |-> FALSE]
  ELSE IF CorrectionOf(invoice, Head(memories)) # NoCorrection /\ acc.appliedCount = k - 1
    THEN [acc |-> acc, failed |-> TRUE]
  ELSE ApplyLoopFailing(
         ApplyOne(acc, Head(memories), CorrectionOf(invoice, Head(memories)), today),
         invoice, Tail(memories), today, k)

\* processInvoice up to the rejected call: the recall step is done (with the
\* decay it writes), the apply step runs until the k-th reinforceMemory.
ProcessApplyFailing(invoice, today, recalled, k) ==
  ApplyLoopFailing([store |-> recalled.store, corrections |-> <<>>, updates |-> <<>>,
                    totalConfidence |-> SCALE, appliedCount |-> 0],
                   invoice, recalled.memories, today, k)

ProcessInvoiceFailing(st, invoice, today, k) ==
  ProcessApplyFailing(invoice, today, ProcessorRecallMemories(st, invoice, today), k)

\* processHumanFeedback when the saveMemory of its k-th correction is rejected
\* at its first statement: the memories of the corrections before it are saved.
ProcessHumanFeedbackFailing(st, feedback, today, k) ==
  FeedbackLoop(st, feedback, SubSeq(feedback.corrections, 1, k - 1), today)

ProcessInvoiceFails(dt, invoice, k) ==
  /\ Clock(dt)
  /\ \E r \in {ProcessInvoiceFailing(store, invoice, now', k)} :
        /\ r.failed
        /\ store' = r.acc.store
        /\ lastOp' = [InitOp EXCEPT !.op = "processInvoice", !.day = now', !.pre = store,
                        !.invoice = <<invoice>>, !.failed = TRUE]
        /\ lastUse' = NextLastUse(r.acc.store,
                         {r.acc.corrections[i].memorySource : i \in DOMAIN r.acc.corrections},
                         now')

FeedbackFails(dt, feedback, k) ==
  /\ Clock(dt)
  /\ k <= Len(feedback.corrections)
  /\ Len(store) + k - 1 <= MaxMem
  /\ store' = ProcessHumanFeedbackFailing(store, feedback, now', k)
  /\ lastOp' = [InitOp EXCEPT !.op = "processHumanFeedback", !.day = now', !.pre = store,
                              !.feedback = <<feedback>>, !.failed = TRUE]
  /\ lastUse' = NextLastUse(store', {}, now')

NextFailure ==
  \/ \E dt \in Elapsed, c \in VendorCalls : CreateVendor(dt, c)
  \/ \E dt \in Elapsed, c \in CorrectionCalls : CreateCorrection(dt, c)
  \/ \E dt \in Elapsed, i \in Invoices : ProcessInvoice(dt, i)
  \/ \E dt \in Elapsed, f \in Feedbacks : Feedback(dt, f)
  \/ \E dt \in Elapsed, i \in Invoices, k \in FailurePoints : ProcessInvoiceFails(dt, i, k)
  \/ \E dt \in Elapsed, f \in Feedbacks, k \in FailurePoints : FeedbackFails(dt, f, k)

SpecFailure == Init /\ [][NextFailure]_vars

\* ------------------------------------------------------------------ claims
Pre == lastOp.pre
IsOp(name) == lastOp.op = name
WasActive(id) == id \in DOMAIN Pre /\ Pre[id].isActive
ResultOf == lastOp.result[1]
IdsOf(memories) == {memories[k].id : k \in DOMAIN memories}

\* C1: after any create / reinforce / weaken / decay, every stored memory has
\* 0.1 <= confidence <= 0.95.
C1_ConfidenceInRange ==
  \A i \in DOMAIN store :
    MIN_CONFIDENCE <= store[i].confidence /\ store[i].confidence <= MAX_CONFIDENCE

\* C2: makeDecision is the five-rule table: no review exactly when
\* (confidence >= 0.85 and no corrections) or (confidence >= 0.65 and every
\* correction >= 0.7); otherwise review, blamed on low confidence below 0.4,
\* else on the risk factors present, else on medium confidence.
C2_ExpectedRisks(cs) ==
  {r \in {"financial_impact", "low_confidence_corrections", "multiple_corrections"} :
     \/ (r = "financial_impact"
         /\ \E i \in DOMAIN cs : cs[i].field \in {"amount", "vatAmount", "totalPrice"})
     \/ (r = "low_confidence_corrections" /\ \E i \in DOMAIN cs : cs[i].confidence < 6000)
     \/ (r = "multiple_corrections" /\ Len(cs) > 3)}

C2_DecisionTable ==
  decideCall.out # <<>> =>
    LET c == decideCall.confidence
        cs == decideCall.corrections
        o == decideCall.out[1]
        auto == \/ (c >= 8500 /\ Len(cs) = 0)
                \/ (c >= 6500 /\ \A i \in DOMAIN cs : cs[i].confidence >= 7000)
    IN /\ o.requiresReview = ~auto
       /\ (c < 4000 => o.requiresReview)
       /\ ~auto =>
            IF c < 4000 THEN o.decisionReasoning.rule = "Low confidence"
            ELSE IF C2_ExpectedRisks(cs) # {}
              THEN /\ o.decisionReasoning.rule = "Risk factors detected"
                   /\ SeqToSet(o.decisionReasoning.riskFactors) = C2_ExpectedRisks(cs)
            ELSE o.decisionReasoning.rule = "Medium confidence"

C2_Witness ==
  /\ decideCall.out # <<>>
  /\ decideCall.confidence >= 6500
  /\ decideCall.out[1].decisionReasoning.rule = "Risk factors detected"
  /\ Len(decideCall.out[1].decisionReasoning.riskFactors) = 3

\* C3: a processInvoice result carries exactly four audit entries, recall,
\* apply, decide, learn in that order, and the apply and decide entries
\* record the result's confidenceScore.
C3_AuditTrail ==
  IsOp("processInvoice") =>
    LET trail == ResultOf.auditTrail
    IN /\ Len(trail) = 4
       /\ [k \in 1..4 |-> trail[k].step] = <<"recall", "apply", "decide", "learn">>
       /\ trail[2].confidence = ResultOf.confidenceScore
       /\ trail[3].confidence = ResultOf.confidenceScore

C3_Witness ==
  /\ IsOp("processInvoice")
  /\ Len(ResultOf.proposedCorrections) > 0
  /\ ResultOf.requiresHumanReview

\* C4: reinforceMemory(id, s) on an active memory with confidence c stores
\* min(c + min(s, 0.1), 0.95), one more use and the day of the call as last
\* use; a correction memory also gets one more approval.
C4_ReinforceEffect ==
  (IsOp("reinforceMemory") /\ WasActive(lastOp.id)) =>
    LET before == Pre[lastOp.id]
        after == store[lastOp.id]
    IN /\ after.confidence = Min(before.confidence + Min(lastOp.strength, 1000), 9500)
       /\ after.usageCount = before.usageCount + 1
       /\ after.lastUsedAt = lastOp.day
       /\ (before.type = "correction" => after.approvalCount = before.approvalCount + 1)

\* C5: weakenMemory(id, s) on an active memory with confidence c stores
\* max(c - min(s, 0.3), 0.1); a correction memory gets one more rejection;
\* the memory is inactive exactly when the stored confidence is 0.1.
C5_WeakenEffect ==
  (IsOp("weakenMemory") /\ WasActive(lastOp.id)) =>
    LET before == Pre[lastOp.id]
        after == store[lastOp.id]
    IN /\ after.confidence = Max(before.confidence - Min(lastOp.strength, 3000), 1000)
       /\ (before.type = "correction" => after.rejectionCount = before.rejectionCount + 1)
       /\ (~after.isActive <=> after.confidence = 1000)

\* C6: a memory that was inactive before an operation is inactive after it,
\* is not among the memories the operation recalled, and is the source of
\* none of its corrections.
C6_InactiveForever ==
  \A i \in DOMAIN Pre :
    ~Pre[i].isActive =>
      /\ ~store[i].isActive
      /\ i \notin IdsOf(lastOp.returned)
      /\ i \notin IdsOf(lastOp.recalled)
      /\ IsOp("processInvoice") =>
           \A k \in DOMAIN ResultOf.proposedCorrections :
             ResultOf.proposedCorrections[k].memorySource # i

C6_Witness ==
  /\ IsOp("recallMemories")
  /\ \E i \in DOMAIN Pre :
       /\ ~Pre[i].isActive
       /\ Pre[i].rejectionCount > 0
       /\ Pre[i].vendor = lastOp.query[1].vendor
       /\ Pre[i].confidence >= lastOp.query[1].minConfidence

\* C7: every memory recallMemories returns carries the confidence now stored
\* for it (the decayed one), and that confidence is at or above the query's
\* minimum.
C7_RecallPostDecay ==
  IsOp("recallMemories") =>
    \A k \in DOMAIN lastOp.returned :
      LET m == lastOp.returned[k]
      IN /\ m.confidence = store[m.id].confidence
         /\ m.confidence >= ReturnThreshold(lastOp.query[1])

\* C8: a recall that reads a memory d days after its last use (or creation)
\* leaves the stored confidence c alone when d <= 7 and stores
\* max(c * 0.95^(d-7), 0.1), strictly less than c when c > 0.1, when d > 7.
C8_DecayRule ==
  IsOp("recallMemories") =>
    \A i \in IdsOf(QueryMemories(Pre, lastOp.query[1])) :
      LET d == lastOp.day - lastUse[i]
          c == Pre[i].confidence
      IN IF d <= 7 THEN store[i].confidence = c
         ELSE /\ store[i].confidence = Max(MulFix(c, PowFix(9500, d - 7)), 1000)
              /\ (c > 1000 => store[i].confidence < c)

\* The product of the corrections' confidences, taken in order
RECURSIVE ProductOfConfidences(_)
ProductOfConfidences(cs) ==
  IF cs = <<>> THEN SCALE
  ELSE MulFix(ProductOfConfidences(SubSeq(cs, 1, Len(cs) - 1)), cs[Len(cs)].confidence)

\* C9: the confidenceScore of processInvoice is the product of the recalled
\* confidences of the memories that produced a correction, times 0.7 when a
\* conflict was found; with no correction it is 0.9.
C9_ProductConfidence ==
  IsOp("processInvoice") =>
    LET cs == ResultOf.proposedCorrections
    IN /\ \A k \in DOMAIN cs :
            \E j \in DOMAIN lastOp.recalled :
              /\ lastOp.recalled[j].id = cs[k].memorySource
              /\ lastOp.recalled[j].confidence = cs[k].confidence
       /\ ResultOf.confidenceScore =
            IF Len(cs) = 0 THEN 9000
            ELSE IF Len(lastOp.conflicts) > 0 THEN MulFix(ProductOfConfidences(cs), 7000)
            ELSE ProductOfConfidences(cs)

C9_Witness ==
  /\ IsOp("processInvoice")
  /\ Len(ResultOf.proposedCorrections) >= 2
  /\ Len(lastOp.conflicts) = 0
  /\ \E k \in DOMAIN ResultOf.proposedCorrections :
       ResultOf.confidenceScore < ResultOf.proposedCorrections[k].confidence

\* C10: the 0.7 penalty is applied once when some field received two
\* corrections with different values, however many fields conflict, and not
\* at all when the corrections of each field agree.
C10_HasConflict(cs) ==
  \E i, j \in DOMAIN cs :
    cs[i].field = cs[j].field /\ cs[i].proposedValue # cs[j].proposedValue

C10_SinglePenalty ==
  (IsOp("processInvoice") /\ Len(ResultOf.proposedCorrections) > 0) =>
    LET cs == ResultOf.proposedCorrections
    IN /\ C10_HasConflict(cs) => ResultOf.confidenceScore = MulFix(ProductOfConfidences(cs), 7000)
       /\ ~C10_HasConflict(cs) => ResultOf.confidenceScore = ProductOfConfidences(cs)

C10_Witness ==
  /\ IsOp("processInvoice")
  /\ Len(lastOp.conflicts) >= 2

\* The store as processInvoice's recall step leaves it, before the apply step
AfterRecall == ProcessorRecallMemories(Pre, lastOp.invoice[1], lastOp.day).store

\* C11: after processInvoice every memory that produced a correction is
\* stored with min(c + 0.02, 0.95), c being its stored confidence before the
\* apply step, whatever the decision; every other memory keeps the
\* confidence it had before the apply step.
C11_ApplyReinforces ==
  IsOp("processInvoice") =>
    \A i \in DOMAIN store :
      store[i].confidence =
        IF i \in SourcesOf(ResultOf)
          THEN Min(AfterRecall[i].confidence + 200, 9500)
          ELSE AfterRecall[i].confidence

FeedbackOf == lastOp.feedback[1]

\* The memory object of a stored row
MemoryOf(i) == RowToMemory(store[i])

\* C12: processHumanFeedback adds one active memory per correction, in
\* order, for the vendor of the invoice id: a vendor memory for serviceDate
\* with a Leistungsdatum reason (0.7), for vatIncluded with a MwSt. inkl.
\* reason (0.8, value true), for currency corrected to EUR (0.6, trigger the
\* vendor name) and for lineItems with a FREIGHT reason (0.7); a correction
\* memory with pattern human_correction, the corrected value and 0.7 for
\* every other correction.
C12_Vendor(invoiceId) ==
  CASE invoiceId = "inv-001" -> "Supplier GmbH"
    [] invoiceId = "inv-002" -> "Parts AG"
    [] invoiceId = "inv-003" -> "Freight & Co"

C12_Expected(m, c, vendor) ==
  /\ m.vendor = vendor
  /\ m.isActive
  /\ IF c.field = "serviceDate" /\ ReasonIncludes(c.reason, "Leistungsdatum")
       THEN /\ m.type = "vendor" /\ m.triggerSignal = "Leistungsdatum"
            /\ m.action.type = "field_mapping" /\ m.action.targetField = "serviceDate"
            /\ m.confidence = 7000
     ELSE IF c.field = "vatIncluded" /\ ReasonIncludes(c.reason, "MwSt. inkl.")
       THEN /\ m.type = "vendor" /\ m.triggerSignal = "MwSt. inkl."
            /\ m.action.type = "computation" /\ m.action.targetField = "vatIncluded"
            /\ m.action.value = Bool(TRUE)
            /\ m.confidence = 8000
     ELSE IF c.field = "currency" /\ c.correctedValue = Str("EUR")
       THEN /\ m.type = "vendor" /\ m.triggerSignal = vendor
            /\ m.action.type = "inference" /\ m.action.targetField = "currency"
            /\ m.confidence = 6000
     ELSE IF c.field = "lineItems" /\ ReasonIncludes(c.reason, "FREIGHT")
       THEN /\ m.type = "vendor" /\ m.action.type = "field_mapping"
            /\ m.confidence = 7000
     ELSE /\ m.type = "correction" /\ m.fieldName = c.field
          /\ m.originalPattern = "human_correction"
          /\ m.correctedValue = c.correctedValue
          /\ m.confidence = 7000

C12_FeedbackCreates ==
  IsOp("processHumanFeedback") =>
    /\ Len(store) = Len(Pre) + Len(FeedbackOf.corrections)
    /\ \A k \in DOMAIN FeedbackOf.corrections :
         C12_Expected(MemoryOf(Len(Pre) + k), FeedbackOf.corrections[k],
                      C12_Vendor(FeedbackOf.invoiceId))

C12_Witness ==
  /\ IsOp("processHumanFeedback")
  /\ Len(Pre) > 0
  /\ store[Len(Pre) + 1].type = "vendor"
  /\ store[Len(store)].type = "correction"

C14_Candidates ==
  {i \in DOMAIN Pre : /\ Pre[i].type = "correction"
                      /\ Pre[i].vendor = lastOp.query[1].vendor
                      /\ Pre[i].fieldName = "currency"}

\* C14: when the store holds one correction memory for the vendor and the
\* field currency, the one createCorrectionMemory(vendor, 'currency',
\* 'human_correction', 'EUR', reason) made, a recall by type correction and
\* field currency returns exactly that memory (its id, field, pattern, the
\* value 'EUR' and the confidence stored for it when the call is made) while
\* it is active and at or above the query's minimum, and nothing otherwise.
C14_RoundTrip ==
  (IsOp("recallMemories") /\ Cardinality(C14_Candidates) = 1) =>
    LET i == CHOOSE j \in C14_Candidates : TRUE
    IN IF Pre[i].isActive /\ Pre[i].confidence >= lastOp.query[1].minConfidence
         THEN /\ Len(lastOp.returned) = 1
              /\ lastOp.returned[1].id = i
              /\ lastOp.returned[1].type = "correction"
              /\ lastOp.returned[1].fieldName = "currency"
              /\ lastOp.returned[1].originalPattern = "human_correction"
              /\ lastOp.returned[1].correctedValue = Str("EUR")
              /\ lastOp.returned[1].confidence = Pre[i].confidence
         ELSE lastOp.returned = <<>>

C14_Witness ==
  /\ IsOp("recallMemories")
  /\ Cardinality(C14_Candidates) = 1
  /\ Len(lastOp.returned) = 1
  /\ lastOp.returned[1].confidence < DEFAULT_CORRECTION_CONFIDENCE

InvoiceOf == lastOp.invoice[1]

\* The memories of the processed invoice's vendor, before the call
MemoriesOfVendor == {i \in DOMAIN Pre : Pre[i].vendor = InvoiceOf.vendor}

\* The store holds, for the invoice's vendor, just the memory of scenario A
C15_ScenarioA ==
  /\ IsOp("processInvoice")
  /\ \E i \in DOMAIN Pre :
       /\ MemoriesOfVendor = {i}
       /\ Pre[i].type = "vendor" /\ Pre[i].isActive
       /\ Pre[i].triggerSignal = "Leistungsdatum"
       /\ Pre[i].action.type = "field_mapping"
       /\ Pre[i].action.targetField = "serviceDate"
       /\ Pre[i].confidence = 7200
  /\ "Leistungsdatum" \in InvoiceOf.rawText
  /\ InvoiceOf.labelDate = "2024-01-10"
  /\ InvoiceOf.extractedData["serviceDate"] = UndefV

\* C15: scenario A yields exactly one correction, serviceDate := '2024-01-10'
\* with confidence 0.72, an overall confidence of 0.72 and no human review.
C15_ScenarioAResult ==
  C15_ScenarioA =>
    /\ Len(ResultOf.proposedCorrections) = 1
    /\ ResultOf.proposedCorrections[1].field = "serviceDate"
    /\ ResultOf.proposedCorrections[1].proposedValue = Str("2024-01-10")
    /\ ResultOf.proposedCorrections[1].confidence = 7200
    /\ ResultOf.confidenceScore = 7200
    /\ ResultOf.requiresHumanReview = FALSE

C15_Witness ==
  /\ C15_ScenarioA
  /\ Len(Pre) > 1

C18_Swap(cs, i) == [cs EXCEPT ![i] = cs[i + 1], ![i + 1] = cs[i]]

\* C18: the outcome of makeDecision is the same for the corrections in any
\* order (exchanging two neighbours never changes it, over all sequences of
\* corrections), and the call leaves the memory store as it was.
C18_PureDecision ==
  /\ [](decideCall.out # <<>> =>
         \A i \in 1..(Len(decideCall.corrections) - 1) :
           makeDecision(decideCall.confidence, C18_Swap(decideCall.corrections, i))
             = decideCall.out[1])
  /\ [][decideCall' # decideCall => store' = store]_vars

C18_Witness ==
  /\ decideCall.out # <<>>
  /\ store # <<>>
  /\ Len(decideCall.corrections) >= 3
  /\ decideCall.corrections[1].field # decideCall.corrections[2].field
  /\ decideCall.corrections[2].confidence # decideCall.corrections[3].confidence
  /\ decideCall.out[1].decisionReasoning.rule = "Risk factors detected"

\* The fields named by the proposed corrections of the last processInvoice
C19_Corrected == {ResultOf.proposedCorrections[i].field : i \in DOMAIN ResultOf.proposedCorrections}

C20_NoPartialApplication ==
  lastOp.failed => store = Pre

\* C21: reinforceMemory and weakenMemory with an id that matches no active
\* memory (an id the store does not hold, or the id of a deactivated memory)
\* return normally and leave the whole store as it was.
C21_UnknownIdNoOp ==
  ((IsOp("reinforceMemory") \/ IsOp("weakenMemory")) /\ ~WasActive(lastOp.id)) =>
    (store = Pre /\ ~lastOp.failed)

C21_Witness ==
  /\ IsOp("reinforceMemory")
  /\ lastOp.id \in DOMAIN Pre
  /\ ~Pre[lastOp.id].isActive
  /\ store = Pre

\* The operations that create exactly one memory
C22_Creates == {"createVendorMemory", "createCorrectionMemory", "createResolutionMemory"}

\* The kind, the vendor and the rule of a memory, as read from its row
RuleOf(row) ==
  [type |-> row.type, vendor |-> row.vendor,
   triggerSignal |-> RowToMemory(row).triggerSignal, action |-> RowToMemory(row).action,
   fieldName |-> row.fieldName, originalPattern |-> row.originalPattern,
   correctedValue |-> RowToMemory(row).correctedValue,
   scenario |-> row.scenario, outcome |-> row.outcome]

C23_Done(p, id) ==
  /\ inFlight[p].pc = "done"
  /\ inFlight[p].memoryId = id
  /\ inFlight[p].memory # <<>>

\* What caller p wrote as the confidence
C23_Written(p) ==
  ReinforcedConfidence(inFlight[p].memory[1].confidence, inFlight[p].strength)

\* C23: two overlapping reinforceMemory calls on one memory can lose an update.
\* When both calls have finished on the same vendor memory and both read its
\* confidence before either wrote, the stored confidence is what one of them
\* wrote, a single increment of the confidence both read, while the usage
\* count, incremented inside the store, counts both calls.  When one call
\* read after the other wrote, the stored confidence carries both increments.
\* A call that runs alone has the effect of reinforceMemory.
C23_LostUpdate ==
  /\ \A id \in DOMAIN Pre :
       (C23_Done(1, id) /\ C23_Done(2, id) /\ Pre[id].type = "vendor") =>
         /\ store[id].usageCount = Pre[id].usageCount + 2
         /\ (inFlight[1].memory[1].confidence = Pre[id].confidence
              /\ inFlight[2].memory[1].confidence = Pre[id].confidence) =>
               store[id].confidence \in {C23_Written(1), C23_Written(2)}
         /\ \A p \in Callers :
              inFlight[p].memory[1].confidence # Pre[id].confidence =>
                store[id].confidence =
                  ReinforcedConfidence(
                    ReinforcedConfidence(Pre[id].confidence, inFlight[3 - p].strength),
                    inFlight[p].strength)
  /\ \A p \in Callers :
       (inFlight[p].pc = "done" /\ inFlight[3 - p].pc = "idle") =>
         store = ReinforceMemory(Pre, inFlight[p].memoryId, inFlight[p].strength, now)

C23_Witness ==
  \E id \in DOMAIN Pre :
    /\ C23_Done(1, id) /\ C23_Done(2, id)
    /\ Pre[id].type = "vendor"
    /\ inFlight[1].strength = APPLY_REINFORCE_STRENGTH
    /\ inFlight[2].strength = APPLY_REINFORCE_STRENGTH
    /\ store[id].confidence = Pre[id].confidence + APPLY_REINFORCE_STRENGTH
    /\ Pre[id].confidence + 2 * APPLY_REINFORCE_STRENGTH <= MAX_CONFIDENCE

\* C24: whatever the strength argument, reinforceMemory leaves the stored
\* confidence of the memory at or above what it was and at most 0.95, and
\* weakenMemory leaves it at or below what it was and does not take it below
\* 0.1 (a memory created below 0.1 stays where it was).
C24_Monotone ==
  /\ (IsOp("reinforceMemory") /\ WasActive(lastOp.id)) =>
       /\ store[lastOp.id].confidence >= Pre[lastOp.id].confidence
       /\ store[lastOp.id].confidence <= MAX_CONFIDENCE
  /\ (IsOp("weakenMemory") /\ WasActive(lastOp.id)) =>
       /\ store[lastOp.id].confidence <= Pre[lastOp.id].confidence
       /\ store[lastOp.id].confidence >= Min(Pre[lastOp.id].confidence, MIN_CONFIDENCE)

\* The store before the last call ends with the memories that the same
\* feedback created in an earlier call
C25_SubmittedBefore ==
  \E n \in 0..Len(Pre) : \E d \in 1..MaxDay :
    ProcessHumanFeedback(SubSeq(Pre, 1, n), FeedbackOf, d) = Pre

\* C25: feedback that is submitted a second time (same invoice id, fields and
\* corrected values) creates no additional memory.
C25_NoDuplicates ==
  (IsOp("processHumanFeedback") /\ C25_SubmittedBefore) => Len(store) = Len(Pre)

\* A second run of the last processInvoice: same store as before the call,
\* same invoice, same day
C26_SecondRun == ProcessInvoiceResult(Pre, InvoiceOf, lastOp.day)

C27_Kept(st) == SelectSeq(st, LAMBDA row : row.type # "resolution")

C27_Without(st) == [k \in DOMAIN C27_Kept(st) |-> [C27_Kept(st)[k] EXCEPT !.id = k]]

C27_IdWithout(st, id) == Cardinality({j \in 1..id : st[j].type # "resolution"})

\* The last processInvoice run on the store without its resolution memories
C27_RunWithout == ProcessInvoiceResult(C27_Without(Pre), InvoiceOf, lastOp.day).result[1]

C28_BelowThreshold ==
  {k \in DOMAIN lastOp.recalled :
     /\ lastOp.recalled[k].confidence >= DEFAULT_MIN_CONFIDENCE
     /\ lastOp.recalled[k].confidence < MEMORY_APPLICATION}

C29_VendorScope ==
  IsOp("processInvoice") =>
    \A i \in DOMAIN Pre :
      Pre[i].vendor # InvoiceOf.vendor =>
        /\ i \notin IdsOf(lastOp.recalled)
        /\ \A k \in DOMAIN ResultOf.proposedCorrections :
             ResultOf.proposedCorrections[k].memorySource # i
        /\ store[i] = Pre[i]

\* The field-issue heuristics as the claim words them
C30_Flagged(data, f) ==
  CASE f = "serviceDate" -> ~TruthyV(data["serviceDate"]) /\ TruthyV(data["date"])
    [] f = "currency" -> ~TruthyV(data["currency"])
    [] f = "poNumber" -> ~TruthyV(data["poNumber"])
    [] f = "vatIncluded" -> data["vatIncluded"] = UndefV
    [] f = "vatAmount" -> ~TruthyV(data["vatAmount"]) /\ TruthyV(data["amount"])
    [] f = "lineItems" ->
         /\ data["lineItems"].k = "array"
         /\ \E i \in DOMAIN data["lineItems"].items : data["lineItems"].items[i].sku = Undef
    [] OTHER -> FALSE

\* C30: a correction of processInvoice whose source is a correction memory
\* names the field of that memory, and that field is one the heuristics flag
\* for this invoice (so it is one of the six fields of the heuristics).
C30_OnlyFlaggedFields ==
  IsOp("processInvoice") =>
    \A k \in DOMAIN ResultOf.proposedCorrections :
      Pre[ResultOf.proposedCorrections[k].memorySource].type = "correction" =>
        /\ ResultOf.proposedCorrections[k].field
             = Pre[ResultOf.proposedCorrections[k].memorySource].fieldName
        /\ C30_Flagged(InvoiceOf.extractedData, ResultOf.proposedCorrections[k].field)

C30_Witness ==
  /\ IsOp("processInvoice")
  /\ \E k \in DOMAIN ResultOf.proposedCorrections :
       Pre[ResultOf.proposedCorrections[k].memorySource].type = "correction"
  /\ \E i \in DOMAIN Pre :
       /\ Pre[i].type = "correction" /\ Pre[i].isActive
       /\ Pre[i].vendor = InvoiceOf.vendor
       /\ Pre[i].confidence >= MEMORY_APPLICATION
       /\ applyMemory(InvoiceOf, RowToMemory(Pre[i])) # NoCorrection
       /\ ~C30_Flagged(InvoiceOf.extractedData, Pre[i].fieldName)
       /\ \A k \in DOMAIN ResultOf.proposedCorrections :
            ResultOf.proposedCorrections[k].memorySource # i

\* The recalled memories that the apply step does not skip
C31_Applicable ==
  {r \in DOMAIN lastOp.recalled : lastOp.recalled[r].confidence >= MEMORY_APPLICATION}

\* Memory r of the recall is the source of a correction
C31_Applied(r) ==
  \E k \in DOMAIN ResultOf.proposedCorrections :
    ResultOf.proposedCorrections[k].memorySource = lastOp.recalled[r].id

\* The recalled correction memory r has a pattern that is no regular expression
C31_Invalid(r) ==
  /\ lastOp.recalled[r].type = "correction"
  /\ InvalidRegex(lastOp.recalled[r].originalPattern)

\* C31: a correction memory whose pattern is not a valid regular expression
\* does not make processInvoice fail: the call returns a result, the memory
\* produces a correction exactly when the current value of its field, as a
\* string, contains the pattern, and every other recalled memory produces
\* what it produces on its own.
C31_InvalidPattern ==
  IsOp("processInvoice") =>
    /\ ~lastOp.failed
    /\ lastOp.result # NoResult
    /\ \A r \in C31_Applicable :
         IF C31_Invalid(r)
           THEN C31_Applied(r) <=>
                  StringIncludes(InvoiceOf.extractedData[lastOp.recalled[r].fieldName],
                                 lastOp.recalled[r].originalPattern)
           ELSE C31_Applied(r) <=> (applyMemory(InvoiceOf, lastOp.recalled[r]) # NoCorrection)

C31_Witness ==
  /\ IsOp("processInvoice")
  /\ \E r \in C31_Applicable : C31_Invalid(r) /\ C31_Applied(r)
  /\ \E r \in C31_Applicable : ~C31_Invalid(r) /\ C31_Applied(r)

\* a comes no later than b in the order of the query
C32_NotAfter(a, b) ==
  \/ a.confidence > b.confidence
  \/ (a.confidence = b.confidence /\ a.usageCount >= b.usageCount)

\* The memories of the store before the call that the query of the last
\* recall selects
C32_Matching ==
  {i \in DOMAIN Pre :
     /\ Pre[i].isActive
     /\ Pre[i].vendor = lastOp.query[1].vendor
     /\ (lastOp.query[1].type # "" => Pre[i].type = lastOp.query[1].type)
     /\ (lastOp.query[1].fieldName # "" => Pre[i].fieldName = lastOp.query[1].fieldName)
     /\ Pre[i].confidence >= lastOp.query[1].minConfidence}

\* C32: recallMemories returns at most limit memories of the query (50 when
\* the query names none), each of them active and selected by the vendor,
\* type and field of the query, in the order confidence descending, then
\* usage count descending; a selected memory that is not returned comes no
\* earlier in that order than any memory returned.
C32_RecallLimit ==
  IsOp("recallMemories") =>
    /\ Len(lastOp.returned) <= lastOp.query[1].limit
    /\ \A k \in DOMAIN lastOp.returned : lastOp.returned[k].id \in C32_Matching
    /\ \A k, l \in DOMAIN lastOp.returned :
         k < l => C32_NotAfter(lastOp.returned[k], lastOp.returned[l])
    /\ \A i \in C32_Matching \ IdsOf(lastOp.returned) :
         \A k \in DOMAIN lastOp.returned : C32_NotAfter(lastOp.returned[k], Pre[i])

\* C33: every correction of a processInvoice result carries the input
\* invoice's value of its field as originalValue and a memory of the recall
\* audit entry as memorySource, and memoryUpdates holds one 'reinforce' entry
\* per correction, in the same order and with the same memory id.
C33_RecallReferences == ResultOf.auditTrail[1].memoryReferences

C33_OriginalValuesKept ==
  IsOp("processInvoice") =>
    /\ ResultOf.auditTrail[1].step = "recall"
    /\ \A k \in DOMAIN ResultOf.proposedCorrections :
         /\ ResultOf.proposedCorrections[k].originalValue
              = InvoiceOf.extractedData[ResultOf.proposedCorrections[k].field]
         /\ \E j \in DOMAIN C33_RecallReferences :
              C33_RecallReferences[j] = ResultOf.proposedCorrections[k].memorySource
    /\ Len(ResultOf.memoryUpdates) = Len(ResultOf.proposedCorrections)
    /\ \A k \in DOMAIN ResultOf.memoryUpdates :
         /\ ResultOf.memoryUpdates[k].type = "reinforce"
         /\ ResultOf.memoryUpdates[k].memoryId = ResultOf.proposedCorrections[k].memorySource

\* two corrections from different memories, the first of a field the invoice has
C33_Witness ==
  /\ IsOp("processInvoice")
  /\ Len(ResultOf.proposedCorrections) >= 2
  /\ ResultOf.proposedCorrections[1].originalValue # UndefV
  /\ ResultOf.proposedCorrections[1].memorySource # ResultOf.proposedCorrections[2].memorySource

\* C34: under every interleaving of reinforceMemory and weakenMemory calls on
\* one memory, a memory that is stored inactive is still stored inactive
\* after any step of a reinforceMemory call.
C34_ReinforceStep ==
  \E p \in Callers :
    /\ inFlight[p].pc \in {"confidence", "usage", "save"}
    /\ inFlight'[p].pc # inFlight[p].pc

C35_SecondRecall ==
  /\ lastOp.op = "recallMemories"
  /\ lastOp'.op = "recallMemories"
  /\ lastOp'.day = lastOp.day
  /\ lastOp'.invoice = lastOp.invoice
  /\ lastOp'.query = lastOp.query

C35_DecayOnce ==
  [][C35_SecondRecall =>
       \A i \in DOMAIN store : store'[i].confidence = store[i].confidence]_vars

\* C36: the learning loop closes for the currency: processInvoice on an
\* invoice without currency, for a vendor with an applicable memory that a
\* correction of the currency to 'EUR' created, returns a correction that
\* proposes currency = 'EUR' from that memory.
C36_CurrencyMemories ==
  {i \in DOMAIN Pre :
     /\ Pre[i].isActive
     /\ Pre[i].type = "vendor"
     /\ Pre[i].vendor = InvoiceOf.vendor
     /\ Pre[i].action.strategy = "vendor_default_currency"
     /\ Pre[i].confidence >= MEMORY_APPLICATION}

C36_CurrencyLoopCloses ==
  (IsOp("processInvoice") /\ ~TruthyV(InvoiceOf.extractedData["currency"])) =>
    \A i \in C36_CurrencyMemories :
      \E k \in DOMAIN ResultOf.proposedCorrections :
        /\ ResultOf.proposedCorrections[k].field = "currency"
        /\ ResultOf.proposedCorrections[k].proposedValue = Str("EUR")
        /\ ResultOf.proposedCorrections[k].memorySource = i

\* C37: after any sequence of processHumanFeedback and processInvoice calls
\* the lineItems of the normalized invoice are absent or a sequence of line
\* items, with the descriptions of the items of the invoice that was processed.
C37_Descriptions(value) == [k \in DOMAIN value.items |-> value.items[k].description]

C37_LineItemsStaySequence ==
  IsOp("processInvoice") =>
    \/ ResultOf.normalizedInvoice.extractedData["lineItems"].k \in {"undefined", "null"}
    \/ /\ ResultOf.normalizedInvoice.extractedData["lineItems"].k = "array"
       /\ InvoiceOf.extractedData["lineItems"].k = "array"
       /\ C37_Descriptions(ResultOf.normalizedInvoice.extractedData["lineItems"])
            = C37_Descriptions(InvoiceOf.extractedData["lineItems"])

\* C38: an escalation does not turn into automation: a processInvoice call
\* that follows, on the same day and for the same invoice, a processInvoice
\* call that asked for human review asks for human review as well.
C38_ProcessedAgain ==
  /\ lastOp.op = "processInvoice"
  /\ lastOp'.op = "processInvoice"
  /\ lastOp'.day = lastOp.day
  /\ lastOp'.invoice = lastOp.invoice

C38_EscalationStays ==
  [][(C38_ProcessedAgain /\ lastOp.result[1].requiresHumanReview)
       => lastOp'.result[1].requiresHumanReview]_vars

====
